---- MODULE Spec2Model ----
(***************************************************************************)
(* Nexus: a command catalog served over RPC (libnexus registry + server),   *)
(* the macro-generated dispatch of #[nexus_service], and the interactive   *)
(* shell with its completion engine and sync/async bridge (libnexus cli).  *)
(*                                                                         *)
(* Rust strings are modelled as sequences of one-character strings, so     *)
(* that formatting, splitting, trimming and prefix tests are computed.     *)
(***************************************************************************)
EXTENDS Integers, Sequences, FiniteSets, TLC

\* ------------------------------------------------------------------ bounds
\* Longest argument list of an Execute request.
MaxArgs == 3
\* Number of register calls made on the builder before serve.
MaxRegister == 2

\* ----------------------------------------------------------------- strings
\* The characters of the model in ASCII order (str's Ord compares bytes).
AsciiOrder == <<"\t", " ", "'", "(", ")", ",", "-", ".", "0", "1", "2", "3", "4", "5", "6", "7", "8", "9", ":", "<", "=", ">", "A", "B", "C", "D", "E", "F", "G", "H", "I", "J", "K", "L", "M", "N", "O", "P", "Q", "R", "S", "T", "U", "V", "W", "X", "Y", "Z", "a", "b", "c", "d", "e", "f", "g", "h", "i", "j", "k", "l", "m", "n", "o", "p", "q", "r", "s", "t", "u", "v", "w", "x", "y", "z">>

Code(c) == CHOOSE i \in 1..Len(AsciiOrder) : AsciiOrder[i] = c

\* str::cmp: lexicographic on bytes, a proper prefix sorts first.
RECURSIVE StrLess(_, _)
StrLess(a, b) ==
    IF b = <<>> THEN FALSE
    ELSE IF a = <<>> THEN TRUE
    ELSE IF a[1] = b[1] THEN StrLess(Tail(a), Tail(b))
    ELSE Code(a[1]) < Code(b[1])

\* char::to_lowercase on the ASCII letters.
LowerChar(c) ==
    LET i == Code(c)
    IN IF Code("A") <= i /\ i <= Code("Z") THEN AsciiOrder[i + (Code("a") - Code("A"))] ELSE c

to_lowercase(s) == [i \in 1..Len(s) |-> LowerChar(s[i])]

\* str::starts_with
starts_with(s, prefix) ==
    Len(prefix) <= Len(s) /\ SubSeq(s, 1, Len(prefix)) = prefix

\* usize Display: decimal digits.
RECURSIVE Decimal(_)
Decimal(n) ==
    IF n < 10 THEN <<AsciiOrder[Code("0") + n]>>
    ELSE Decimal(n \div 10) \o <<AsciiOrder[Code("0") + (n % 10)]>>

\* Option<T>: None is <<>>, Some(v) is <<v>>.
None == <<>>
Some(v) == <<v>>

\* Result<String>: Ok(message) or Err(anyhow error with that Display text).
Ok(m) == [ok |-> TRUE, msg |-> m]
Err(m) == [ok |-> FALSE, msg |-> m]

\* ----------------------------------------------------------- catalog model
ArgInfo(n, h, c, d) == [name |-> n, hint |-> h, completer |-> c, description |-> d]
CommandInfo(n, a, d) == [name |-> n, args |-> a, description |-> d]

\* Completer references a hand-written service may declare on its argument.
Completers == {<<>>, <<"b", "l", "o", "c", "k", ".", "l", "i", "s", "t">>, <<"b", "l", "o", "c", "k", "l", "i", "s", "t">>, <<"b", "l", "o", "c", "k", ".", "i", "n", "f", "o">>, <<"b", "l", "o", "c", "k", ".", "w", "i", "p", "e">>, <<"n", "o", "p", "e", ".", "l", "i", "s", "t">>}

\* The service implementations that can be registered:
\*   Volume      storage-daemon/src/services/volume.rs
\*   MainVolume  the Volume of storage-daemon/src/main.rs (same struct name)
\*   Block       storage-daemon/src/services/block.rs
\*   Custom      any other #[nexus_service] implementation: a documented
\*               service with one command run(input) whose argument has a
\*               doc, and whose completer reference and handler outcome
\*               (Ok or Err) are service-defined.
Impls == {"Volume", "MainVolume", "Block", "Custom"}

\* The struct name the macro sees (quote!(#self_ty).to_string()).
struct_name(impl) ==
    CASE impl = "Volume" -> <<"V", "o", "l", "u", "m", "e">>
      [] impl = "MainVolume" -> <<"V", "o", "l", "u", "m", "e">>
      [] impl = "Block" -> <<"B", "l", "o", "c", "k">>
      [] impl = "Custom" -> <<"C", "u", "s", "t", "o", "m">>

\* Service::name(): the struct name lowercased.
service_name(impl) == to_lowercase(struct_name(impl))

\* Service::description(): the doc comment on the impl block (the storage
\* daemon's services have none).
service_doc(impl) == IF impl = "Custom" THEN <<"A", " ", "c", "u", "s", "t", "o", "m", " ", "s", "e", "r", "v", "i", "c", "e", ".">> ELSE <<>>

\* Service::commands(): one CommandInfo per #[command] method, in source order.
command_infos(impl, customCompleter) ==
    CASE impl = "Volume" ->
           << CommandInfo(<<"c", "r", "e", "a", "t", "e">>,
                          << ArgInfo(<<"n", "a", "m", "e">>, <<"v", "o", "l", "u", "m", "e", " ", "n", "a", "m", "e">>, <<>>, <<>>),
                             ArgInfo(<<"d", "i", "s", "k">>, <<"d", "e", "v", "i", "c", "e">>, <<"b", "l", "o", "c", "k", ".", "l", "i", "s", "t">>, <<>>) >>,
                          <<"C", "r", "e", "a", "t", "e", " ", "a", " ", "n", "e", "w", " ", "v", "o", "l", "u", "m", "e", " ", "o", "n", " ", "t", "h", "e", " ", "s", "p", "e", "c", "i", "f", "i", "e", "d", " ", "d", "i", "s", "k", ".">>),
              CommandInfo(<<"d", "e", "l", "e", "t", "e">>, << ArgInfo(<<"n", "a", "m", "e">>, <<>>, <<>>, <<>>) >>,
                          <<"D", "e", "l", "e", "t", "e", " ", "a", "n", " ", "e", "x", "i", "s", "t", "i", "n", "g", " ", "v", "o", "l", "u", "m", "e", ".">>),
              CommandInfo(<<"l", "i", "s", "t">>, <<>>, <<"L", "i", "s", "t", " ", "a", "l", "l", " ", "v", "o", "l", "u", "m", "e", "s", ".">>) >>
      [] impl = "MainVolume" ->
           << CommandInfo(<<"c", "r", "e", "a", "t", "e">>,
                          << ArgInfo(<<"n", "a", "m", "e">>, <<>>, <<>>, <<>>),
                             ArgInfo(<<"d", "i", "s", "k">>, <<>>, <<>>, <<>>) >>,
                          <<"C", "r", "e", "a", "t", "e", " ", "a", " ", "n", "e", "w", " ", "v", "o", "l", "u", "m", "e", " ", "o", "n", " ", "t", "h", "e", " ", "s", "p", "e", "c", "i", "f", "i", "e", "d", " ", "d", "i", "s", "k", ".">>),
              CommandInfo(<<"d", "e", "l", "e", "t", "e">>, << ArgInfo(<<"n", "a", "m", "e">>, <<>>, <<>>, <<>>) >>,
                          <<"D", "e", "l", "e", "t", "e", " ", "a", "n", " ", "e", "x", "i", "s", "t", "i", "n", "g", " ", "v", "o", "l", "u", "m", "e", ".">>),
              CommandInfo(<<"l", "i", "s", "t">>, <<>>, <<"L", "i", "s", "t", " ", "a", "l", "l", " ", "v", "o", "l", "u", "m", "e", "s", ".">>) >>
      [] impl = "Block" ->
           << CommandInfo(<<"l", "i", "s", "t">>, <<>>, <<"L", "i", "s", "t", " ", "a", "l", "l", " ", "b", "l", "o", "c", "k", " ", "d", "e", "v", "i", "c", "e", "s", ".">>),
              CommandInfo(<<"i", "n", "f", "o">>, << ArgInfo(<<"d", "e", "v", "i", "c", "e">>, <<>>, <<>>, <<>>) >>,
                          <<"S", "h", "o", "w", " ", "i", "n", "f", "o", " ", "f", "o", "r", " ", "a", " ", "b", "l", "o", "c", "k", " ", "d", "e", "v", "i", "c", "e", ".">>) >>
      [] impl = "Custom" ->
           << CommandInfo(<<"r", "u", "n">>,
                          << ArgInfo(<<"i", "n", "p", "u", "t">>, <<>>, customCompleter, <<"w", "h", "a", "t", " ", "t", "o", " ", "r", "u", "n">>) >>,
                          <<>>) >>

\* ------------------------------------------------------- command handlers
\* The body of a #[command] method, called with the bound parameters.
\* outcome is the service-defined result of Custom's handler.
Handler(impl, command, bound, outcome) ==
    CASE impl \in {"Volume", "MainVolume"} /\ command = <<"c", "r", "e", "a", "t", "e">> ->
           Ok(<<"V", "o", "l", "u", "m", "e", " ", "'">> \o bound[1] \o <<"'", " ", "c", "r", "e", "a", "t", "e", "d", " ", "o", "n", " ", "d", "i", "s", "k", " ", "'">> \o bound[2] \o <<"'">>)
      [] impl \in {"Volume", "MainVolume"} /\ command = <<"d", "e", "l", "e", "t", "e">> ->
           Ok(<<"V", "o", "l", "u", "m", "e", " ", "'">> \o bound[1] \o <<"'", " ", "d", "e", "l", "e", "t", "e", "d">>)
      [] impl \in {"Volume", "MainVolume"} /\ command = <<"l", "i", "s", "t">> ->
           Ok(<<"v", "o", "l", "0", ",", " ", "v", "o", "l", "1", ",", " ", "v", "o", "l", "2">>)
      [] impl = "Block" /\ command = <<"l", "i", "s", "t">> ->
           Ok(<<"s", "d", "a", ",", " ", "s", "d", "b", ",", " ", "s", "d", "c", ",", " ", "n", "v", "m", "e", "0", "n", "1">>)
      [] impl = "Block" /\ command = <<"i", "n", "f", "o">> ->
           Ok(<<"B", "l", "o", "c", "k", " ", "d", "e", "v", "i", "c", "e", " ", "'">> \o bound[1] \o <<"'", ":", " ", "s", "i", "z", "e", "=", "5", "0", "0", "G", ",", " ", "t", "y", "p", "e", "=", "S", "S", "D">>)
      [] impl = "Custom" /\ command = <<"r", "u", "n">> ->
           IF outcome = "ok" THEN Ok(<<"r", "a", "n", " ">> \o bound[1]) ELSE Err(<<"c", "a", "n", "n", "o", "t", " ", "r", "u", "n", " ">> \o bound[1])

\* ------------------------------------------- generated dispatch (derive)
\* anyhow!("missing argument '{}' (expected {} args)", stringify!(name), num_params)
fmt_missing_argument(name, num_params) ==
    <<"m", "i", "s", "s", "i", "n", "g", " ", "a", "r", "g", "u", "m", "e", "n", "t", " ", "'">> \o name \o <<"'", " ", "(", "e", "x", "p", "e", "c", "t", "e", "d", " ">> \o Decimal(num_params) \o <<" ", "a", "r", "g", "s", ")">>

\* A message that does not quote the action.
fmt_unknown_command_unquoted(action) == <<"u", "n", "k", "n", "o", "w", "n", " ", "c", "o", "m", "m", "a", "n", "d">>

\* anyhow!("unknown command '{}'", action)
fmt_unknown_command(action) == <<"u", "n", "k", "n", "o", "w", "n", " ", "c", "o", "m", "m", "a", "n", "d", " ", "'">> \o action \o <<"'">>

\* anyhow!("unknown service '{}'", service_name)
fmt_unknown_service(name) == <<"u", "n", "k", "n", "o", "w", "n", " ", "s", "e", "r", "v", "i", "c", "e", " ", "'">> \o name \o <<"'">>

\* Extractions that report the first declared parameter, not the first unbound.
param_extractions_first_declared(params, args, i, bound) ==
    IF Len(args) >= Len(params)
    THEN [ok |-> TRUE, bound |-> SubSeq(args, 1, Len(params)), msg |-> <<>>]
    ELSE [ok |-> FALSE, bound |-> args,
          msg |-> fmt_missing_argument(params[1].name, Len(params))]

\* The parameter extractions of one match arm, run in order: parameter i is
\* args.get(i), and the first absent one returns the missing-argument error.
\* i counts from 1 here (Rust's index i - 1).
RECURSIVE param_extractions(_, _, _, _)
param_extractions(params, args, i, bound) ==
    IF i > Len(params) THEN [ok |-> TRUE, bound |-> bound, msg |-> <<>>]
    ELSE IF i > Len(args)
         THEN [ok |-> FALSE, bound |-> bound,
               msg |-> fmt_missing_argument(params[i].name, Len(params))]
         ELSE param_extractions(params, args, i + 1, Append(bound, args[i]))

\* A dispatch that rejects arguments beyond the declared count.
Service_execute_strict_arity(impl, customCompleter, action, args, outcome) ==
    LET cmds == command_infos(impl, customCompleter)
        arms == {i \in 1..Len(cmds) : cmds[i].name = action}
    IN IF arms = {}
       THEN [result |-> Err(fmt_unknown_command(action)), invoked |-> <<>>]
       ELSE LET cmd == cmds[CHOOSE i \in arms : \A j \in arms : i <= j]
            IN IF Len(args) = Len(cmd.args)
               THEN [result |-> Handler(impl, cmd.name, args, outcome),
                     invoked |-> <<[impl |-> impl, command |-> cmd.name, bound |-> args]>>]
               ELSE [result |-> Err(fmt_missing_argument(cmd.name, Len(cmd.args))),
                     invoked |-> <<>>]

\* The generated Service::execute: match action { arms, _ => unknown command }.
\* Returns the Result and the handler invocations made (none or one).
Service_execute(impl, customCompleter, action, args, outcome) ==
    LET cmds == command_infos(impl, customCompleter)
        arms == {i \in 1..Len(cmds) : cmds[i].name = action}
    IN IF arms = {}
       THEN [result |-> Err(fmt_unknown_command(action)), invoked |-> <<>>]
       ELSE LET cmd == cmds[CHOOSE i \in arms : \A j \in arms : i <= j]
                ext == param_extractions(cmd.args, args, 1, <<>>)
            IN IF ext.ok
               THEN [result |-> Handler(impl, cmd.name, ext.bound, outcome),
                     invoked |-> <<[impl |-> impl, command |-> cmd.name, bound |-> ext.bound]>>]
               ELSE [result |-> Err(ext.msg), invoked |-> <<>>]

\* ---------------------------------------------------------------- registry
\* Registry::register: HashMap::insert(service.name(), Box::new(service)).
Registry_register(svcs, impl) ==
    [n \in (DOMAIN svcs) \cup {service_name(impl)} |->
        IF n = service_name(impl) THEN impl ELSE svcs[n]]

\* The orders in which a HashMap with these keys can be iterated.
IterationOrders(svcs) ==
    {p \in [1..Cardinality(DOMAIN svcs) -> DOMAIN svcs] :
        \A i, j \in DOMAIN p : i /= j => p[i] /= p[j]}

\* A lookup that falls back to some registered service for an unknown name.
Registry_lookup_fallback(svcs, name) ==
    IF name \in DOMAIN svcs THEN Ok(svcs[name])
    ELSE IF DOMAIN svcs /= {} THEN Ok(svcs[CHOOSE n \in DOMAIN svcs : TRUE])
    ELSE Err(fmt_unknown_service(name))

\* Registry::execute up to the await of service.execute: the lookup.
Registry_lookup(svcs, name) ==
    IF name \in DOMAIN svcs THEN Ok(svcs[name]) ELSE Err(fmt_unknown_service(name))

\* A listing that leaves out the last entry of the iteration.
Registry_list_services_short(svcs, ord, cc) ==
    [i \in 1..(Len(ord) - 1) |->
        <<ord[i], service_doc(svcs[ord[i]]), command_infos(svcs[ord[i]], cc)>>]

\* Registry::list_services: (name, description, commands) per map entry,
\* in the map's iteration order.
Registry_list_services(svcs, ord, cc) ==
    [i \in 1..Len(ord) |->
        <<ord[i], service_doc(svcs[ord[i]]), command_infos(svcs[ord[i]], cc)>>]

\* ------------------------------------------------------------- RPC server
\* A conversion that leaves the hint out of the message.
ArgDef_without_hint(a) ==
    [name |-> a.name, hint |-> <<>>, completer |-> a.completer,
     description |-> a.description]

\* ArgDef { name, hint, completer, description } from an ArgInfo.
ArgDef(a) ==
    [name |-> a.name, hint |-> a.hint, completer |-> a.completer,
     description |-> a.description]

CommandDef(c) ==
    [name |-> c.name, args |-> [i \in 1..Len(c.args) |-> ArgDef(c.args[i])],
     description |-> c.description]

ServiceInfo(t) ==
    [name |-> t[1], description |-> t[2],
     commands |-> [i \in 1..Len(t[3]) |-> CommandDef(t[3][i])]]

\* NexusGrpcService::list_services: the ListServicesResponse's services.
ListServicesResponse(svcs, ord, cc) ==
    LET l == Registry_list_services(svcs, ord, cc)
    IN [i \in 1..Len(l) |-> ServiceInfo(l[i])]

\* A match that turns an Err of the registry into Err(Status).
CommandResponse_status(result) ==
    IF result.ok
    THEN [status |-> "Ok", success |-> TRUE, message |-> result.msg]
    ELSE [status |-> "Err", success |-> FALSE, message |-> result.msg]

\* NexusGrpcService::execute's match on the registry's Result: what the RPC
\* returns. status is the protocol-level outcome (Ok(Response) or Err(Status)).
CommandResponse(result) ==
    IF result.ok
    THEN [status |-> "Ok", success |-> TRUE, message |-> result.msg]
    ELSE [status |-> "Ok", success |-> FALSE, message |-> result.msg]

\* ---------------------------------------------------------------- inputs
ArgValues == {<<"x">>, <<"y">>}
\* Argument lists of every length up to MaxArgs, neighbours differing so
\* that positions can be told apart.
ArgLists ==
    UNION {{[i \in 1..n |-> IF i % 2 = 1 THEN p[1] ELSE p[2]] :
               p \in {q \in ArgValues \X ArgValues : q[1] /= q[2]}} :
           n \in 0..MaxArgs}
ReqServices == {<<"v", "o", "l", "u", "m", "e">>, <<"b", "l", "o", "c", "k">>, <<"c", "u", "s", "t", "o", "m">>, <<"n", "o", "p", "e">>}
ReqActions == {<<"c", "r", "e", "a", "t", "e">>, <<"l", "i", "s", "t">>, <<"i", "n", "f", "o">>, <<"r", "u", "n">>, <<"b", "o", "g", "u", "s">>}

\* The handler outcomes a service's command can have.
Outcomes(impl) == IF impl = "Custom" THEN {"ok", "err"} ELSE {"ok"}

\* ------------------------------------------------------ str helpers (shell)
\* char::is_whitespace on the characters a line can hold.
is_whitespace(c) == c \in {" ", "\t"}

\* str::ends_with(' ')
ends_with_space(s) == Len(s) > 0 /\ s[Len(s)] = " "

\* str::split_whitespace: the maximal runs of non-whitespace characters.
RECURSIVE split_whitespace_from(_, _, _, _)
split_whitespace_from(s, i, cur, acc) ==
    IF i > Len(s) THEN (IF cur = <<>> THEN acc ELSE Append(acc, cur))
    ELSE IF is_whitespace(s[i])
         THEN split_whitespace_from(s, i + 1, <<>>, IF cur = <<>> THEN acc ELSE Append(acc, cur))
         ELSE split_whitespace_from(s, i + 1, Append(cur, s[i]), acc)

split_whitespace(s) == split_whitespace_from(s, 1, <<>>, <<>>)

\* str::split(sep): the pieces between separators, empty pieces kept.
RECURSIVE split_from(_, _, _, _, _)
split_from(s, sep, i, cur, acc) ==
    IF i > Len(s) THEN Append(acc, cur)
    ELSE IF s[i] = sep
         THEN split_from(s, sep, i + 1, <<>>, Append(acc, cur))
         ELSE split_from(s, sep, i + 1, Append(cur, s[i]), acc)

split(s, sep) == split_from(s, sep, 1, <<>>, <<>>)

\* str::trim: leading and trailing whitespace removed.
RECURSIVE trim_start(_)
trim_start(s) ==
    IF s /= <<>> /\ is_whitespace(s[1]) THEN trim_start(Tail(s)) ELSE s

RECURSIVE trim_end(_)
trim_end(s) ==
    IF s /= <<>> /\ is_whitespace(s[Len(s)]) THEN trim_end(SubSeq(s, 1, Len(s) - 1)) ELSE s

trim(s) == trim_end(trim_start(s))

\* str::split_once('.'): None, or Some((before, after)) at the first separator.
split_once(s, sep) ==
    LET at == {i \in 1..Len(s) : s[i] = sep}
    IN IF at = {} THEN None
       ELSE LET i == CHOOSE k \in at : \A j \in at : k <= j
            IN Some(<<SubSeq(s, 1, i - 1), SubSeq(s, i + 1, Len(s))>>)

\* Iterator::filter(|s| s.starts_with(prefix)) on a sequence.
RECURSIVE filter_starts_with(_, _)
filter_starts_with(s, prefix) ==
    IF s = <<>> THEN <<>>
    ELSE (IF starts_with(s[1], prefix) THEN <<s[1]>> ELSE <<>>)
         \o filter_starts_with(Tail(s), prefix)

\* Iterator::filter(|s| !s.is_empty()) on a sequence.
RECURSIVE filter_non_empty(_)
filter_non_empty(s) ==
    IF s = <<>> THEN <<>>
    ELSE (IF s[1] /= <<>> THEN <<s[1]>> ELSE <<>>) \o filter_non_empty(Tail(s))

\* slice::sort_by(|a, b| a.display.cmp(&b.display)): a stable insertion sort.
RECURSIVE insert_sorted(_, _)
insert_sorted(sorted, x) ==
    IF sorted = <<>> THEN <<x>>
    ELSE IF StrLess(x, sorted[1]) THEN <<x>> \o sorted
    ELSE <<sorted[1]>> \o insert_sorted(Tail(sorted), x)

RECURSIVE sort_by_display(_)
sort_by_display(s) ==
    IF s = <<>> THEN <<>>
    ELSE insert_sorted(sort_by_display(SubSeq(s, 1, Len(s) - 1)), s[Len(s)])

\* HashMap::keys() as a sequence, in some iteration order.
RECURSIVE keys_seq(_)
keys_seq(S) ==
    IF S = {} THEN <<>>
    ELSE LET x == CHOOSE y \in S : TRUE IN <<x>> \o keys_seq(S \ {x})

\* Vec<String>::join(" ")
RECURSIVE join_space(_)
join_space(s) ==
    IF s = <<>> THEN <<>>
    ELSE IF Len(s) = 1 THEN s[1]
    ELSE s[1] \o <<" ">> \o join_space(Tail(s))

\* HashMap::insert
MapInsert(m, k, v) == [x \in (DOMAIN m) \cup {k} |-> IF x = k THEN v ELSE m[x]]

\* ------------------------------------------------------------ NexusHelper
\* The inner loop of from_services: arg_info.insert((svc.name, cmd.name), cmd.args)
RECURSIVE insert_arg_info(_, _, _, _)
insert_arg_info(arg_info, svc, k, n) ==
    IF k > n THEN arg_info
    ELSE insert_arg_info(MapInsert(arg_info, <<svc.name, svc.commands[k].name>>,
                                   svc.commands[k].args),
                         svc, k + 1, n)

\* NexusHelper::from_services: commands and arg_info, filled by HashMap
\* inserts in catalog order (a later entry with the same key replaces).
RECURSIVE from_services_loop(_, _, _)
from_services_loop(svcs, i, h) ==
    IF i > Len(svcs) THEN h
    ELSE from_services_loop(svcs, i + 1,
            [commands |-> MapInsert(h.commands, svcs[i].name,
                                    [k \in 1..Len(svcs[i].commands) |->
                                        svcs[i].commands[k].name]),
             arg_info |-> insert_arg_info(h.arg_info, svcs[i], 1,
                                          Len(svcs[i].commands))])

\* A helper that records the argument specs but no command lists.
from_services_args_only(svcs) ==
    [commands |-> <<>>,
     arg_info |-> from_services_loop(svcs, 1, [commands |-> <<>>, arg_info |-> <<>>]).arg_info]

from_services(svcs) == from_services_loop(svcs, 1, [commands |-> <<>>, arg_info |-> <<>>])

\* NexusHelper::arg_label: the hint if set, otherwise the parameter name.
arg_label(arg) == IF arg.hint = <<>> THEN arg.name ELSE arg.hint

\* The (display, replacement) pairs of the strings of s that start with prefix.
Pairs(s, prefix) ==
    LET kept == filter_starts_with(s, prefix)
    IN [i \in 1..Len(kept) |-> [display |-> kept[i], replacement |-> kept[i]]]

\* Pairs left in the order of s.
SortedPairs_unsorted(s, prefix) ==
    LET kept == filter_starts_with(s, prefix)
    IN [i \in 1..Len(kept) |-> [display |-> kept[i], replacement |-> kept[i]]]

\* Pairs sorted by display (the display is the string itself).
SortedPairs(s, prefix) ==
    LET kept == sort_by_display(filter_starts_with(s, prefix))
    IN [i \in 1..Len(kept) |-> [display |-> kept[i], replacement |-> kept[i]]]

builtins == <<<<"h", "e", "l", "p">>, <<"q", "u", "i", "t">>, <<"e", "x", "i", "t">>>>

\* What Completer::complete returns, or the completer it has to fetch first.
\*   fetch: None, or Some(completer reference) when fetch_completions is called
\*   underflow: the usize subtraction parts.len() - 3 went below zero
Completed(start, candidates) ==
    [fetch |-> None, prefix |-> <<>>, start |-> start, candidates |-> candidates,
     underflow |-> FALSE]

\* Completer::complete up to the call of fetch_completions.
complete(h, full_line, pos) ==
    LET line == SubSeq(full_line, 1, pos)
        parts == split_whitespace(line)
        n == Len(parts)
    IN IF n = 0 \/ (n = 1 /\ ~ends_with_space(line))
       THEN \* the first word: service names, then builtins
            LET prefix == IF n = 0 THEN <<>> ELSE parts[1]
            IN Completed(pos - Len(prefix),
                         SortedPairs(keys_seq(DOMAIN h.commands), prefix)
                            \o SortedPairs(builtins, prefix))
       ELSE IF (n = 1 \/ (n = 2 /\ ~ends_with_space(line))) /\ parts[1] = <<"h", "e", "l", "p">>
       THEN \* the second word after "help": service names
            LET prefix == IF n = 2 THEN parts[2] ELSE <<>>
            IN Completed(pos - Len(prefix),
                         SortedPairs(keys_seq(DOMAIN h.commands), prefix))
       ELSE IF (n = 1 \/ (n = 2 /\ ~ends_with_space(line)))
               /\ parts[1] \in DOMAIN h.commands
       THEN \* the second word: the service's command names
            LET prefix == IF n = 2 THEN parts[2] ELSE <<>>
            IN Completed(pos - Len(prefix), SortedPairs(h.commands[parts[1]], prefix))
       ELSE IF n >= 2 /\ <<parts[1], parts[2]>> \in DOMAIN h.arg_info
       THEN \* an argument: the declared completer, if any
            LET args == h.arg_info[<<parts[1], parts[2]>>]
                ews == ends_with_space(line)
                arg_index == IF ews THEN n - 2 ELSE n - 3
                prefix == IF ews THEN <<>> ELSE parts[n]
            IN IF arg_index < 0
               THEN [Completed(pos, <<>>) EXCEPT !.underflow = TRUE]
               ELSE IF arg_index < Len(args) /\ args[arg_index + 1].completer /= <<>>
               THEN [fetch |-> Some(args[arg_index + 1].completer), prefix |-> prefix,
                     start |-> pos - Len(prefix), candidates |-> <<>>,
                     underflow |-> FALSE]
               ELSE Completed(pos, <<>>)
       ELSE Completed(pos, <<>>)

\* The rest of complete once fetch_completions has returned values.
complete_values(prefix, start, values) == Completed(start, Pairs(values, prefix))

\* A match that offers the error as a candidate.
fetch_completions_match_error(result) ==
    IF result.ok
    THEN LET pieces == split(result.resp[1].message, ",")
             trimmed == [i \in 1..Len(pieces) |-> trim(pieces[i])]
         IN filter_non_empty(trimmed)
    ELSE <<<<"e", "r", "r", "o", "r">>>>

\* fetch_completions' match on the joined result: the message of a response
\* split on ',', trimmed, empty pieces dropped; nothing for any error.
\*   result: [ok |-> TRUE, resp |-> Some(CommandResponse)] or [ok |-> FALSE, ..]
fetch_completions_match(result) ==
    IF result.ok
    THEN LET pieces == split(result.resp[1].message, ",")
             trimmed == [i \in 1..Len(pieces) |-> trim(pieces[i])]
         IN filter_non_empty(trimmed)
    ELSE <<>>

\* A hint that leaves out the argument the cursor is at.
hint_after_current(h, full_line, pos) ==
    LET line == SubSeq(full_line, 1, pos)
        parts == split_whitespace(line)
        n == Len(parts)
    IN IF n < 2 THEN None
       ELSE IF <<parts[1], parts[2]>> \notin DOMAIN h.arg_info THEN None
       ELSE LET args == h.arg_info[<<parts[1], parts[2]>>]
                hint_start == n - 1
                remaining == [i \in 1..(IF Len(args) > hint_start
                                         THEN Len(args) - hint_start ELSE 0) |->
                                 <<"<">> \o arg_label(args[hint_start + i]) \o <<">">>]
            IN IF remaining = <<>> THEN None
               ELSE IF ends_with_space(line) THEN Some(join_space(remaining))
               ELSE Some(<<" ">> \o join_space(remaining))

\* Hinter::hint: the placeholders of the arguments not typed yet.
hint(h, full_line, pos) ==
    LET line == SubSeq(full_line, 1, pos)
        parts == split_whitespace(line)
        n == Len(parts)
    IN IF n < 2 THEN None
       ELSE IF <<parts[1], parts[2]>> \notin DOMAIN h.arg_info THEN None
       ELSE LET args == h.arg_info[<<parts[1], parts[2]>>]
                hint_start == n - 2
                remaining == [i \in 1..(IF Len(args) > hint_start
                                         THEN Len(args) - hint_start ELSE 0) |->
                                 <<"<">> \o arg_label(args[hint_start + i]) \o <<">">>]
            IN IF remaining = <<>> THEN None
               ELSE IF ends_with_space(line) THEN Some(join_space(remaining))
               ELSE Some(<<" ">> \o join_space(remaining))

\* ------------------------------------------------------------------ help
\* The "<label>" placeholders of a command's arguments joined by spaces.
args_str(cmd) ==
    join_space([i \in 1..Len(cmd.args) |->
                   <<"<">> \o arg_label(cmd.args[i]) \o <<">">>])

RECURSIVE Flatten(_)
Flatten(ss) == IF ss = <<>> THEN <<>> ELSE ss[1] \o Flatten(Tail(ss))

\* Vec<String>::join(" - ")
RECURSIVE join_dash(_)
join_dash(s) ==
    IF s = <<>> THEN <<>>
    ELSE IF Len(s) = 1 THEN s[1]
    ELSE s[1] \o <<" ", "-", " ">> \o join_dash(Tail(s))

\* print_help: the lines printed for the whole catalog.
print_help(svcs) ==
    <<<<"A", "v", "a", "i", "l", "a", "b", "l", "e", " ", "c", "o", "m", "m", "a", "n", "d", "s", ":">>>> \o
    Flatten([i \in 1..Len(svcs) |->
        <<IF svcs[i].description = <<>>
          THEN <<" ", " ">> \o svcs[i].name \o <<":">>
          ELSE <<" ", " ">> \o svcs[i].name \o <<":", " ">> \o svcs[i].description>> \o
        [k \in 1..Len(svcs[i].commands) |->
            LET cmd == svcs[i].commands[k]
                desc == IF cmd.description = <<>> THEN <<>>
                        ELSE <<" ", "-", " ">> \o cmd.description
            IN <<" ", " ", " ", " ">> \o cmd.name \o <<" ">> \o args_str(cmd) \o desc]])

\* The lines print_service_help prints for one argument (none or one).
arg_help(arg) ==
    LET has_desc == arg.description /= <<>>
        has_comp == arg.completer /= <<>>
    IN IF has_desc \/ has_comp
       THEN <<join_dash(<<<<" ", " ", " ", " ", "<">> \o arg_label(arg) \o <<">">>>> \o
                        (IF has_desc THEN <<arg.description>> ELSE <<>>) \o
                        (IF has_comp
                         THEN <<<<"(", "c", "o", "m", "p", "l", "e", "t", "i", "o", "n", "s", " ", "f", "r", "o", "m", " ">> \o arg.completer \o <<")">>>>
                         ELSE <<>>))>>
       ELSE <<>>

\* print_service_help: the lines printed for `help <name>`.
print_service_help(svcs, name) ==
    LET found == {i \in 1..Len(svcs) : svcs[i].name = name}
    IN IF found = {}
       THEN <<<<"U", "n", "k", "n", "o", "w", "n", " ", "s", "e", "r", "v", "i", "c", "e", " ", "'">> \o name \o <<"'", ".", " ", "T", "y", "p", "e", " ", "'", "h", "e", "l", "p", "'", " ", "t", "o", " ", "l", "i", "s", "t", " ", "a", "l", "l", " ", "s", "e", "r", "v", "i", "c", "e", "s", ".">>>>
       ELSE LET svc == svcs[CHOOSE i \in found : \A j \in found : i <= j]
            IN <<IF svc.description = <<>>
                 THEN svc.name \o <<":">>
                 ELSE svc.name \o <<":", " ">> \o svc.description>> \o
               << <<>> >> \o
               Flatten([k \in 1..Len(svc.commands) |->
                   LET cmd == svc.commands[k]
                   IN <<<<" ", " ">> \o cmd.name \o <<" ">> \o args_str(cmd)>> \o
                      (IF cmd.description /= <<>>
                       THEN <<<<" ", " ", " ", " ">> \o cmd.description>> ELSE <<>>) \o
                      Flatten([a \in 1..Len(cmd.args) |-> arg_help(cmd.args[a])]) \o
                      << <<>> >>])

\* ------------------------------------------------------- the RPC service
\* What the server answers to Execute(service, action, args): Registry::execute
\* followed by NexusGrpcService::execute's match.
ServerExecute(svcs, cc, service, action, args, outcome) ==
    LET found == Registry_lookup(svcs, service)
    IN IF found.ok
       THEN CommandResponse(Service_execute(found.msg, cc, action, args, outcome).result)
       ELSE CommandResponse(Err(found.msg))

\* The handler outcomes possible for a request.
RequestOutcomes(svcs, service) ==
    IF service \in DOMAIN svcs THEN Outcomes(svcs[service]) ELSE {"ok"}

\* ------------------------------------------------------------ shell inputs
\* Words the user types as the k-th token of a line (k = 1, 2, 3, ...).
Words ==
    << {<<"v", "o", "l">>, <<"v", "o", "l", "u", "m", "e">>, <<"b", "l", "o", "c", "k">>, <<"c", "u", "s", "t", "o", "m">>, <<"h", "e", "l", "p">>, <<"q", "u", "i", "t">>, <<"n", "o", "p", "e">>},
       {<<"c">>, <<"c", "r", "e", "a", "t", "e">>, <<"l", "i", "s", "t">>, <<"r", "u", "n">>, <<"v", "o", "l", "u", "m", "e">>, <<"c", "u", "s", "t", "o", "m">>, <<"n", "o", "w">>},
       {<<"m", "y", "v", "o", "l">>, <<"s", "d">>, <<"u">>},
       {<<"s", "d">>} >>

WordsAt(k) == IF k <= Len(Words) THEN Words[k] ELSE Words[Len(Words)]

\* Most tokens typed on one line.
MaxTokens == 4
\* How far the cursor is moved back from the end of the line.
MaxCursorBack == 1

\* The registry built by registering impls in order, listed in that order.
RECURSIVE RegisterAll(_, _)
RegisterAll(svcs, impls) ==
    IF impls = <<>> THEN svcs
    ELSE RegisterAll(Registry_register(svcs, impls[1]), Tail(impls))

Setup(impls, cc) ==
    [impls |-> impls, services |-> RegisterAll(<<>>, impls),
     order |-> [i \in 1..Len(impls) |-> service_name(impls[i])],
     cc |-> cc]

\* The servers the shell is run against.
ShellSetups ==
    {Setup(<<"Volume", "Block">>, <<>>), Setup(<<"Block", "Volume">>, <<>>),
     Setup(<<"Volume">>, <<>>), Setup(<<"MainVolume", "Block">>, <<>>)}
    \cup {Setup(<<"Custom", "Block">>, cc) : cc \in Completers}

\* ------------------------------------------------------------------ state
VARIABLES
    customCompleter,  \* the completer reference declared by the custom service
    phase,            \* NexusServer: "building" (builder) or "serving"
    services,         \* Registry.services: service name -> implementation
    order,            \* the iteration order of Registry.services once sealed
    registered,       \* the implementations passed to register, in call order
    calls,            \* the server's Execute calls, by call id
    listed,           \* the last ListServicesResponse sent, if any
    shell,            \* where NexusCli::run is
    catalog,          \* run's `services`: the catalog fetched at startup
    helper,           \* NexusHelper.commands and .arg_info
    line,             \* the editor's line buffer during readline
    pos,              \* the cursor (a char offset into line)
    hintOut,          \* what the last hint call returned
    last_input_len,   \* NexusHelper.last_input_len
    completion,       \* what the complete call made last returned, once it has
    fetched,          \* what fetch_completions was called with and got, if called
    pending,          \* complete's prefix and start while fetch_completions runs
    bridge,           \* the scoped thread of fetch_completions
    rpcs,             \* the client's RPCs in flight
    output            \* the lines printed by the current loop iteration

serverVars == <<customCompleter, phase, services, order, registered, calls, listed>>
shellVars == <<shell, catalog, helper, line, pos, hintOut, last_input_len,
               completion, fetched, pending, bridge, rpcs, output>>
editVars == <<line, pos, hintOut, last_input_len, completion, fetched>>
vars == <<customCompleter, phase, services, order, registered, calls, listed,
          shell, catalog, helper, line, pos, hintOut, last_input_len,
          completion, fetched, pending, bridge, rpcs, output>>

IdleCall ==
    [pc |-> "idle", service |-> <<>>, action |-> <<>>, args |-> <<>>,
     impl |-> None, result |-> None, invoked |-> <<>>, response |-> None]

NoBridge ==
    [state |-> "none", thread |-> "", joiner |-> "", service |-> <<>>,
     action |-> <<>>, result |-> None]

\* No shell: the state of the shell's variables before NexusCli::run.
ShellOff(sh) ==
    /\ shell = sh
    /\ catalog = <<>>
    /\ helper = [commands |-> <<>>, arg_info |-> <<>>]
    /\ line = <<>>
    /\ pos = 0
    /\ hintOut = None
    /\ last_input_len = 0
    /\ completion = None
    /\ fetched = None
    /\ pending = None
    /\ bridge = NoBridge
    /\ rpcs = {}
    /\ output = <<>>

\* ----------------------------------------------------------------- server
\* NexusServer::new(): an empty registry, nothing served yet.
Init ==
    /\ customCompleter = <<"b", "l", "o", "c", "k", "l", "i", "s", "t">>
    /\ phase = "building"
    /\ services = <<>>
    /\ order = <<>>
    /\ registered = <<>>
    /\ calls = [c \in {1} |-> IdleCall]
    /\ listed = None
    /\ ShellOff("Off")

\* A builder that hands out a clone of its Arc once a service is registered.
registry_holders_cloned ==
    IF phase = "building"
    THEN IF registered = <<>> THEN {"NexusServer"} ELSE {"NexusServer", "clone"}
    ELSE {"NexusGrpcService"}

\* The owners of the Arc<Registry>: the builder's field, moved by serve into
\* the gRPC service's field; nothing clones it.
registry_holders ==
    IF phase = "building" THEN {"NexusServer"} ELSE {"NexusGrpcService"}

\* Arc::get_mut: a mutable reference exactly when the Arc has one owner.
Arc_get_mut(holders) == Cardinality(holders) = 1

\* NexusServer::register(self, service) -> Self: self is taken by value, so
\* it is callable on a builder only; it panics when get_mut gives None.
NexusServer_register(impl) ==
    /\ phase = "building"
    /\ Len(registered) < MaxRegister
    /\ IF Arc_get_mut(registry_holders)
       THEN /\ services' = Registry_register(services, impl)
            /\ registered' = Append(registered, impl)
            /\ phase' = phase
       ELSE /\ phase' = "panicked"
            /\ UNCHANGED <<services, registered>>
    /\ UNCHANGED <<customCompleter, order, calls, listed>>
    /\ UNCHANGED shellVars

\* NexusServer::serve(self, addr): the registry moves into the gRPC service.
NexusServer_serve ==
    /\ phase = "building"
    /\ phase' = "serving"
    /\ order' \in IterationOrders(services)
    /\ UNCHANGED <<customCompleter, services, registered, calls, listed>>
    /\ UNCHANGED shellVars

\* NexusGrpcService::execute is entered with a CommandRequest.
NexusGrpcService_execute(c) ==
    /\ phase = "serving"
    /\ calls[c].pc = "idle"
    /\ \E service \in ReqServices, action \in ReqActions, args \in ArgLists :
          calls' = [calls EXCEPT ![c] =
                       [IdleCall EXCEPT !.pc = "registry", !.service = service,
                                        !.action = action, !.args = args]]
    /\ UNCHANGED <<customCompleter, phase, services, order, registered, listed>>
    /\ UNCHANGED shellVars

\* Registry::execute: services.get(name).ok_or_else(..)?
Registry_execute(c) ==
    /\ calls[c].pc = "registry"
    /\ LET found == Registry_lookup(services, calls[c].service)
       IN calls' = [calls EXCEPT ![c] =
                       IF found.ok
                       THEN [@ EXCEPT !.pc = "service", !.impl = Some(found.msg)]
                       ELSE [@ EXCEPT !.pc = "reply", !.result = Some(Err(found.msg))]]
    /\ UNCHANGED <<customCompleter, phase, services, order, registered, listed>>
    /\ UNCHANGED shellVars

\* A dispatch that keeps its result in a slot shared by the calls in progress.
Service_execute_await_shared(c) ==
    /\ calls[c].pc = "service"
    /\ \E outcome \in Outcomes(calls[c].impl[1]) :
          LET r == Service_execute(calls[c].impl[1], customCompleter,
                                   calls[c].action, calls[c].args, outcome)
          IN calls' = [d \in DOMAIN calls |->
                          IF calls[d].pc = "service"
                          THEN [calls[d] EXCEPT !.pc = "reply", !.result = Some(r.result),
                                                !.invoked = r.invoked]
                          ELSE calls[d]]
    /\ UNCHANGED <<customCompleter, phase, services, order, registered, listed>>
    /\ UNCHANGED shellVars

\* service.execute(action, args).await: the generated dispatch and the handler.
Service_execute_await(c) ==
    /\ calls[c].pc = "service"
    /\ \E outcome \in Outcomes(calls[c].impl[1]) :
          LET r == Service_execute(calls[c].impl[1], customCompleter,
                                   calls[c].action, calls[c].args, outcome)
          IN calls' = [calls EXCEPT ![c] =
                          [@ EXCEPT !.pc = "reply", !.result = Some(r.result),
                                    !.invoked = r.invoked]]
    /\ UNCHANGED <<customCompleter, phase, services, order, registered, listed>>
    /\ UNCHANGED shellVars

\* NexusGrpcService::execute returns the CommandResponse.
NexusGrpcService_execute_return(c) ==
    /\ calls[c].pc = "reply"
    /\ calls' = [calls EXCEPT ![c] =
                    [@ EXCEPT !.pc = "done",
                              !.response = Some(CommandResponse(calls[c].result[1]))]]
    /\ UNCHANGED <<customCompleter, phase, services, order, registered, listed>>
    /\ UNCHANGED shellVars

\* The response is on the wire and the call's future is dropped.
CallDropped(c) ==
    /\ calls[c].pc = "done"
    /\ calls' = [calls EXCEPT ![c] = IdleCall]
    /\ UNCHANGED <<customCompleter, phase, services, order, registered, listed>>
    /\ UNCHANGED shellVars

\* NexusGrpcService::list_services
NexusGrpcService_list_services ==
    /\ phase = "serving"
    /\ listed' = Some(ListServicesResponse(services, order, customCompleter))
    /\ UNCHANGED <<customCompleter, phase, services, order, registered, calls>>
    /\ UNCHANGED shellVars

Next ==
    \/ \E impl \in Impls : NexusServer_register(impl)
    \/ NexusServer_serve
    \/ \E c \in DOMAIN calls : NexusGrpcService_execute(c)
    \/ \E c \in DOMAIN calls : Registry_execute(c)
    \/ \E c \in DOMAIN calls : Service_execute_await(c)
    \/ \E c \in DOMAIN calls : NexusGrpcService_execute_return(c)
    \/ \E c \in DOMAIN calls : CallDropped(c)
    \/ NexusGrpcService_list_services

Spec == Init /\ [][Next]_vars

\* ------------------------------------------------------- concurrent calls
\* Execute calls the server has in progress at once (tonic serves each
\* request on its own task, all sharing the Arc<Registry>).
MaxCalls == 2

\* The requests of the concurrent clients.
ConcRequests ==
    {[service |-> s, action |-> a, args |-> g] :
        s \in {<<"v", "o", "l", "u", "m", "e">>, <<"c", "u", "s", "t", "o", "m">>, <<"n", "o", "p", "e">>},
        a \in {<<"c", "r", "e", "a", "t", "e">>, <<"r", "u", "n">>},
        g \in {l \in ArgLists : Len(l) \in {1, 2} /\ l[1] = <<"x">>}}

\* A serving server with no call in progress.
InitConc ==
    /\ \E s \in {Setup(<<"Volume", "Custom">>, <<>>), Setup(<<"Custom", "MainVolume">>, <<>>)} :
          /\ customCompleter = s.cc
          /\ services = s.services
          /\ order = s.order
          /\ registered = s.impls
    /\ phase = "serving"
    /\ calls = [c \in 1..MaxCalls |-> IdleCall]
    /\ listed = None
    /\ ShellOff("Off")

\* NexusGrpcService::execute is entered by one of the concurrent clients.
NexusGrpcService_execute_concurrent(c) ==
    /\ phase = "serving"
    /\ calls[c].pc = "idle"
    /\ \E req \in ConcRequests :
          calls' = [calls EXCEPT ![c] =
                       [IdleCall EXCEPT !.pc = "registry", !.service = req.service,
                                        !.action = req.action, !.args = req.args]]
    /\ UNCHANGED <<customCompleter, phase, services, order, registered, listed>>
    /\ UNCHANGED shellVars

NextConc ==
    \/ \E c \in DOMAIN calls : NexusGrpcService_execute_concurrent(c)
    \/ \E c \in DOMAIN calls : Registry_execute(c)
    \/ \E c \in DOMAIN calls : Service_execute_await(c)
    \/ \E c \in DOMAIN calls : NexusGrpcService_execute_return(c)
    \/ \E c \in DOMAIN calls : CallDropped(c)
    \/ NexusGrpcService_list_services

ConcSpec == InitConc /\ [][NextConc]_vars

\* ------------------------------------------------------------------ shell
\* A runtime whose tasks are polled by the thread inside Runtime::block_on.
runtime_flavor_current_thread == "current_thread"

\* #[tokio::main] of the shell binary: the runtime NexusCli::run runs on.
runtime_flavor == "multi_thread"

\* The thread on which fetch_completions calls handle.block_on: the one
\* std::thread::scope's s.spawn creates.
block_on_thread == "scoped"

\* The threads that poll the tasks spawned on the runtime, the channel's
\* connection task among them: the workers of a multi-thread runtime, the
\* thread inside Runtime::block_on (main) of a current-thread one.
connection_task_threads ==
    IF runtime_flavor = "multi_thread" THEN {"worker"} ELSE {"main"}

\* The main thread is inside the synchronous rl.readline call.
MainBlocked == shell \in {"Ready", "Completing"}

\* Some thread can poll the connection task.
CanDriveConnection ==
    \E t \in connection_task_threads : t /= "main" \/ ~MainBlocked

Rpc(kind, service, action, args) ==
    [kind |-> kind, service |-> service, action |-> action, args |-> args,
     state |-> "queued", resp |-> None]

\* NexusCli::run is started against a serving server.
InitShell ==
    /\ \E s \in ShellSetups :
          /\ customCompleter = s.cc
          /\ services = s.services
          /\ order = s.order
          /\ registered = s.impls
    /\ phase = "serving"
    /\ calls = [c \in {1} |-> IdleCall]
    /\ listed = None
    /\ ShellOff("Connecting")

\* NexusServiceClient::connect / connect_with_connector succeeds and
\* client.list_services is called.
connect_ok ==
    /\ shell = "Connecting"
    /\ shell' = "AwaitingCatalog"
    /\ rpcs' = rpcs \cup {Rpc("catalog", <<>>, <<>>, <<>>)}
    /\ UNCHANGED <<catalog, helper, pending, bridge, output>>
    /\ UNCHANGED editVars
    /\ UNCHANGED serverVars

\* connect(..).await? fails: run returns the error.
connect_err ==
    /\ shell = "Connecting"
    /\ shell' = "Failed"
    /\ UNCHANGED <<catalog, helper, pending, bridge, rpcs, output>>
    /\ UNCHANGED editVars
    /\ UNCHANGED serverVars

\* The channel's connection task writes a queued request to the connection.
channel_send(r) ==
    /\ r \in rpcs
    /\ r.state = "queued"
    /\ CanDriveConnection
    /\ rpcs' = (rpcs \ {r}) \cup {[r EXCEPT !.state = "sent"]}
    /\ UNCHANGED <<shell, catalog, helper, pending, bridge, output>>
    /\ UNCHANGED editVars
    /\ UNCHANGED serverVars

\* The server answers a request it received.
server_answers(r) ==
    /\ r \in rpcs
    /\ r.state = "sent"
    /\ phase = "serving"
    /\ \E outcome \in RequestOutcomes(services, r.service) :
          LET resp == IF r.kind = "catalog"
                      THEN ListServicesResponse(services, order, customCompleter)
                      ELSE ServerExecute(services, customCompleter, r.service,
                                         r.action, r.args, outcome)
          IN rpcs' = (rpcs \ {r}) \cup
                     {[r EXCEPT !.state = "answered", !.resp = Some(resp)]}
    /\ UNCHANGED <<shell, catalog, helper, pending, bridge, output>>
    /\ UNCHANGED editVars
    /\ UNCHANGED serverVars

\* The server is unreachable or the connection is lost during the call.
transport_fails(r) ==
    /\ r \in rpcs
    /\ r.state \in {"queued", "sent"}
    /\ rpcs' = (rpcs \ {r}) \cup {[r EXCEPT !.state = "failed"]}
    /\ UNCHANGED <<shell, catalog, helper, pending, bridge, output>>
    /\ UNCHANGED editVars
    /\ UNCHANGED serverVars

\* A startup that connects again when the catalog fetch fails.
list_services_await_retry(r) ==
    /\ shell = "AwaitingCatalog"
    /\ r \in rpcs
    /\ r.kind = "catalog"
    /\ r.state \in {"answered", "failed"}
    /\ CanDriveConnection
    /\ rpcs' = rpcs \ {r}
    /\ IF r.state = "answered"
       THEN /\ catalog' = r.resp[1]
            /\ helper' = from_services(r.resp[1])
            /\ output' = <<<<"C", "o", "n", "n", "e", "c", "t", "e", "d", ".", " ", "T", "y", "p", "e", " ", "'", "h", "e", "l", "p", "'", " ", "f", "o", "r", " ", "a", "v", "a", "i", "l", "a", "b", "l", "e", " ", "c", "o", "m", "m", "a", "n", "d", "s", ",", " ", "'", "q", "u", "i", "t", "'", " ", "t", "o", " ", "e", "x", "i", "t", ".">>>>
            /\ shell' = "Connected"
       ELSE /\ shell' = "Connecting"
            /\ UNCHANGED <<catalog, helper, output>>
    /\ UNCHANGED <<pending, bridge>>
    /\ UNCHANGED editVars
    /\ UNCHANGED serverVars

\* client.list_services(..).await? returns: the catalog is kept, the
\* greeting printed and the helper built from it; or run returns the error.
list_services_await(r) ==
    /\ shell = "AwaitingCatalog"
    /\ r \in rpcs
    /\ r.kind = "catalog"
    /\ r.state \in {"answered", "failed"}
    /\ CanDriveConnection
    /\ rpcs' = rpcs \ {r}
    /\ IF r.state = "answered"
       THEN /\ catalog' = r.resp[1]
            /\ helper' = from_services(r.resp[1])
            /\ output' = <<<<"C", "o", "n", "n", "e", "c", "t", "e", "d", ".", " ", "T", "y", "p", "e", " ", "'", "h", "e", "l", "p", "'", " ", "f", "o", "r", " ", "a", "v", "a", "i", "l", "a", "b", "l", "e", " ", "c", "o", "m", "m", "a", "n", "d", "s", ",", " ", "'", "q", "u", "i", "t", "'", " ", "t", "o", " ", "e", "x", "i", "t", ".">>>>
            /\ shell' = "Connected"
       ELSE /\ shell' = "Failed"
            /\ UNCHANGED <<catalog, helper, output>>
    /\ UNCHANGED <<pending, bridge>>
    /\ UNCHANGED editVars
    /\ UNCHANGED serverVars

\* Editor::new()? succeeds and the helper is set: the loop is entered.
editor_new ==
    /\ shell = "Connected"
    /\ shell' = "Printed"
    /\ UNCHANGED <<catalog, helper, pending, bridge, rpcs, output>>
    /\ UNCHANGED editVars
    /\ UNCHANGED serverVars

\* Editor::new()? fails: run returns the error.
editor_new_err ==
    /\ shell = "Connected"
    /\ shell' = "Failed"
    /\ UNCHANGED <<catalog, helper, pending, bridge, rpcs, output>>
    /\ UNCHANGED editVars
    /\ UNCHANGED serverVars

\* The loop calls rl.readline("cli> "): the editor shows the prompt.
readline ==
    /\ shell = "Printed"
    /\ shell' = "Ready"
    /\ output' = <<>>
    /\ UNCHANGED <<catalog, helper, pending, bridge, rpcs>>
    /\ UNCHANGED editVars
    /\ UNCHANGED serverVars

\* readline returns: the editor's buffer, cursor, hint and candidates are
\* gone; the helper and its last_input_len live on.
ReadlineReturns ==
    /\ line' = <<>>
    /\ pos' = 0
    /\ hintOut' = None
    /\ completion' = None
    /\ fetched' = None
    /\ UNCHANGED last_input_len

\* A hinter that keeps the hint of an earlier call while it has one.
type_hint_cached(chunk) ==
    /\ shell = "Ready"
    /\ pos = Len(line)
    /\ line' = line \o chunk
    /\ pos' = Len(line')
    /\ hintOut' = IF hintOut = None THEN hint(helper, line', pos') ELSE hintOut
    /\ last_input_len' = Len(line')
    /\ completion' = None
    /\ fetched' = None
    /\ UNCHANGED <<shell, catalog, helper, pending, bridge, rpcs, output>>
    /\ UNCHANGED serverVars

\* Text is typed at the end of the line; the editor then asks for the hint.
type(chunk) ==
    /\ shell = "Ready"
    /\ pos = Len(line)
    /\ line' = line \o chunk
    /\ pos' = Len(line')
    /\ hintOut' = hint(helper, line', pos')
    /\ last_input_len' = Len(line')
    /\ completion' = None
    /\ fetched' = None
    /\ UNCHANGED <<shell, catalog, helper, pending, bridge, rpcs, output>>
    /\ UNCHANGED serverVars

\* The next word of the line is typed, at the start or after a space.
type_word ==
    /\ (IF line = <<>> THEN TRUE ELSE line[Len(line)] = " ")
    /\ Len(split_whitespace(line)) < MaxTokens
    /\ \E w \in WordsAt(Len(split_whitespace(line)) + 1) : type(w)

\* A space or a tab is typed after a word.
type_whitespace ==
    /\ (IF line = <<>> THEN FALSE ELSE ~is_whitespace(line[Len(line)]))
    /\ \E c \in {" ", "\t"} : type(<<c>>)

\* The cursor is moved one character to the left.
move_left ==
    /\ shell = "Ready"
    /\ pos > 0
    /\ Len(line) - pos < MaxCursorBack
    /\ pos' = pos - 1
    /\ hintOut' = hint(helper, line, pos')
    /\ last_input_len' = Len(line)
    /\ completion' = None
    /\ fetched' = None
    /\ UNCHANGED <<shell, catalog, helper, line, pending, bridge, rpcs, output>>
    /\ UNCHANGED serverVars

\* Tab: the editor calls Completer::complete on the main thread. Without a
\* completer to fetch it returns at once; fetch_completions returns at once
\* when the reference has no '.'; otherwise it spawns the scoped thread and
\* joins it.
tab ==
    /\ shell = "Ready"
    /\ LET c == complete(helper, line, pos)
           ref == IF c.fetch = None THEN None ELSE split_once(c.fetch[1], ".")
       IN IF c.fetch = None
          THEN /\ completion' = Some(c)
               /\ fetched' = None
               /\ UNCHANGED <<shell, pending, bridge>>
          ELSE IF ref = None
          THEN /\ completion' = Some(complete_values(c.prefix, c.start, <<>>))
               /\ fetched' = Some([completer |-> c.fetch[1], joined |-> None])
               /\ UNCHANGED <<shell, pending, bridge>>
          ELSE /\ shell' = "Completing"
               /\ pending' = Some([prefix |-> c.prefix, start |-> c.start,
                                   completer |-> c.fetch[1]])
               /\ bridge' = [state |-> "spawned", thread |-> block_on_thread,
                             joiner |-> "main", service |-> ref[1][1],
                             action |-> ref[1][2], result |-> None]
               /\ completion' = None
               /\ fetched' = None
    /\ UNCHANGED <<catalog, helper, line, pos, hintOut, last_input_len, rpcs, output>>
    /\ UNCHANGED serverVars

\* The scoped thread runs handle.block_on(client.execute(request)).
block_on ==
    /\ bridge.state = "spawned"
    /\ bridge' = [bridge EXCEPT !.state = "block_on"]
    /\ rpcs' = rpcs \cup {Rpc("completer", bridge.service, bridge.action, <<>>)}
    /\ UNCHANGED <<shell, catalog, helper, pending, output>>
    /\ UNCHANGED editVars
    /\ UNCHANGED serverVars

\* The completer's future resolves and the scoped thread ends with it.
block_on_return(r) ==
    /\ bridge.state = "block_on"
    /\ r \in rpcs
    /\ r.kind = "completer"
    /\ r.state \in {"answered", "failed"}
    /\ CanDriveConnection
    /\ rpcs' = rpcs \ {r}
    /\ bridge' = [bridge EXCEPT !.state = "finished",
                                !.result = Some([ok |-> r.state = "answered",
                                                 resp |-> r.resp])]
    /\ UNCHANGED <<shell, catalog, helper, pending, output>>
    /\ UNCHANGED editVars
    /\ UNCHANGED serverVars

\* A fetch_completions that returns without joining the scoped thread.
fetch_completions_join_detached ==
    /\ shell = "Completing"
    /\ bridge.state \in {"block_on", "finished"}
    /\ completion' = Some(complete_values(pending[1].prefix, pending[1].start, <<>>))
    /\ fetched' = Some([completer |-> pending[1].completer, joined |-> None])
    /\ shell' = "Ready"
    /\ pending' = None
    /\ bridge' = NoBridge
    /\ UNCHANGED <<catalog, helper, line, pos, hintOut, last_input_len, rpcs, output>>
    /\ UNCHANGED serverVars

\* join() returns in fetch_completions; complete filters the values and
\* returns to the editor.
fetch_completions_join ==
    /\ shell = "Completing"
    /\ bridge.state = "finished"
    /\ LET values == fetch_completions_match(bridge.result[1])
       IN completion' = Some(complete_values(pending[1].prefix, pending[1].start, values))
    /\ fetched' = Some([completer |-> pending[1].completer, joined |-> bridge.result])
    /\ shell' = "Ready"
    /\ pending' = None
    /\ bridge' = NoBridge
    /\ UNCHANGED <<catalog, helper, line, pos, hintOut, last_input_len, rpcs, output>>
    /\ UNCHANGED serverVars

\* A loop body that sends the request without awaiting it (a detached task).
run_line_detached(svcs, returned) ==
    LET l == trim(returned)
        parts == split_whitespace(l)
    IN IF l = <<>> \/ l = <<"q", "u", "i", "t">> \/ l = <<"e", "x", "i", "t">> \/ Len(parts) < 2 \/ parts[1] = <<"h", "e", "l", "p">>
       THEN [next |-> IF l = <<"q", "u", "i", "t">> \/ l = <<"e", "x", "i", "t">> THEN "Terminated" ELSE "Printed",
             out |-> <<>>, request |-> None]
       ELSE [next |-> "Printed", out |-> <<>>,
             request |-> Some(Rpc("line", parts[1], parts[2], SubSeq(parts, 3, Len(parts))))]

\* What the loop body does with a line readline returned, up to the RPC.
\*   next: the shell's next state; out: the lines printed;
\*   request: the CommandRequest sent, if any
run_line(svcs, returned) ==
    LET l == trim(returned)
        parts == split_whitespace(l)
    IN IF l = <<>> THEN [next |-> "Printed", out |-> <<>>, request |-> None]
       ELSE IF l = <<"q", "u", "i", "t">> \/ l = <<"e", "x", "i", "t">>
       THEN [next |-> "Terminated", out |-> <<>>, request |-> None]
       ELSE IF parts[1] = <<"h", "e", "l", "p">>
       THEN [next |-> "Printed",
             out |-> IF Len(parts) >= 2 THEN print_service_help(svcs, parts[2])
                     ELSE print_help(svcs),
             request |-> None]
       ELSE IF Len(parts) < 2
       THEN [next |-> "Printed", out |-> <<<<"U", "s", "a", "g", "e", ":", " ", "<", "s", "e", "r", "v", "i", "c", "e", ">", " ", "<", "c", "o", "m", "m", "a", "n", "d", ">", " ", "[", "a", "r", "g", "s", ".", ".", ".", "]">>>>,
             request |-> None]
       ELSE [next |-> "Executing", out |-> <<>>,
             request |-> Some(Rpc("line", parts[1], parts[2], SubSeq(parts, 3, Len(parts))))]

\* A loop body that sends the remaining tokens as one argument.
enter_args_joined ==
    /\ shell = "Ready"
    /\ LET r == run_line(catalog, line)
       IN /\ shell' = r.next
          /\ output' = r.out
          /\ rpcs' = IF r.request = None THEN rpcs
                     ELSE rpcs \cup {[r.request[1] EXCEPT
                                        !.args = IF @ = <<>> THEN <<>> ELSE <<join_space(@)>>]}
    /\ UNCHANGED <<catalog, helper, pending, bridge>>
    /\ ReadlineReturns
    /\ UNCHANGED serverVars

\* Enter: readline returns the line and the loop body runs.
enter ==
    /\ shell = "Ready"
    /\ LET r == run_line(catalog, line)
       IN /\ shell' = r.next
          /\ output' = r.out
          /\ rpcs' = IF r.request = None THEN rpcs ELSE rpcs \cup {r.request[1]}
    /\ UNCHANGED <<catalog, helper, pending, bridge>>
    /\ ReadlineReturns
    /\ UNCHANGED serverVars

\* A loop that breaks on Interrupted as it does on Eof.
interrupted_break ==
    /\ shell = "Ready"
    /\ shell' = "Terminated"
    /\ UNCHANGED <<catalog, helper, pending, bridge, rpcs, output>>
    /\ ReadlineReturns
    /\ UNCHANGED serverVars

\* Ctrl-C: readline returns Interrupted; ^C is printed after the input and
\* the loop continues.
interrupted ==
    /\ shell = "Ready"
    /\ shell' = "Printed"
    /\ output' = << <<"ESC", "[", "A", "ESC", "[">> \o Decimal(5 + last_input_len + 1)
                    \o <<"G", "^", "C">> >>
    /\ UNCHANGED <<catalog, helper, pending, bridge, rpcs>>
    /\ ReadlineReturns
    /\ UNCHANGED serverVars

\* Ctrl-D on an empty line: readline returns Eof and the loop ends.
eof ==
    /\ shell = "Ready"
    /\ line = <<>>
    /\ shell' = "Terminated"
    /\ UNCHANGED <<catalog, helper, pending, bridge, rpcs, output>>
    /\ ReadlineReturns
    /\ UNCHANGED serverVars

\* readline returns any other error: run returns it.
readline_err ==
    /\ shell = "Ready"
    /\ shell' = "Failed"
    /\ UNCHANGED <<catalog, helper, pending, bridge, rpcs, output>>
    /\ ReadlineReturns
    /\ UNCHANGED serverVars

\* A loop that returns an error when the response has success = false.
execute_await_abort(r) ==
    /\ shell = "Executing"
    /\ r \in rpcs
    /\ r.kind = "line"
    /\ r.state \in {"answered", "failed"}
    /\ CanDriveConnection
    /\ rpcs' = rpcs \ {r}
    /\ IF r.state = "answered" /\ r.resp[1].success
       THEN /\ output' = <<r.resp[1].message>>
            /\ shell' = "Printed"
       ELSE /\ shell' = "Failed"
            /\ UNCHANGED output
    /\ UNCHANGED <<catalog, helper, pending, bridge>>
    /\ UNCHANGED editVars
    /\ UNCHANGED serverVars

\* client.execute(..).await? returns for a submitted line: the message is
\* printed, as an error when success is false; or run returns the error.
execute_await(r) ==
    /\ shell = "Executing"
    /\ r \in rpcs
    /\ r.kind = "line"
    /\ r.state \in {"answered", "failed"}
    /\ CanDriveConnection
    /\ rpcs' = rpcs \ {r}
    /\ IF r.state = "answered"
       THEN /\ output' = IF r.resp[1].success THEN <<r.resp[1].message>>
                         ELSE <<<<"E", "r", "r", "o", "r", ":", " ">> \o r.resp[1].message>>
            /\ shell' = "Printed"
       ELSE /\ shell' = "Failed"
            /\ UNCHANGED output
    /\ UNCHANGED <<catalog, helper, pending, bridge>>
    /\ UNCHANGED editVars
    /\ UNCHANGED serverVars

NextShell ==
    \/ connect_ok
    \/ connect_err
    \/ \E r \in rpcs : channel_send(r)
    \/ \E r \in rpcs : server_answers(r)
    \/ \E r \in rpcs : transport_fails(r)
    \/ \E r \in rpcs : list_services_await(r)
    \/ editor_new
    \/ editor_new_err
    \/ readline
    \/ type_word
    \/ type_whitespace
    \/ move_left
    \/ tab
    \/ block_on
    \/ \E r \in rpcs : block_on_return(r)
    \/ fetch_completions_join
    \/ enter
    \/ interrupted
    \/ eof
    \/ readline_err
    \/ \E r \in rpcs : execute_await(r)

ShellSpec == InitShell /\ [][NextShell]_vars

\* ------------------------------------------------------------ the bridge
\* Whole lines put into the editor at once (a paste), each followed by Tab.
BridgeLines ==
    {<<"v", "o", "l", "u", "m", "e", " ", "c", "r", "e", "a", "t", "e", " ", "m", "y", "v", "o", "l", " ">>, <<"v", "o", "l", "u", "m", "e", " ", "c", "r", "e", "a", "t", "e", " ", "m", "y", "v", "o", "l", " ", "s">>, <<"c", "u", "s", "t", "o", "m", " ", "r", "u", "n", " ">>,
     <<"v", "o", "l", "u", "m", "e", " ", "c", "r", "e", "a", "t", "e", " ">>, <<"b", "l", "o", "c", "k", " ", "i", "n", "f", "o">>}

\* A line is pasted into the empty editor.
paste ==
    /\ line = <<>>
    /\ \E l \in BridgeLines : type(l)

NextBridge ==
    \/ connect_ok
    \/ connect_err
    \/ \E r \in rpcs : channel_send(r)
    \/ \E r \in rpcs : server_answers(r)
    \/ \E r \in rpcs : transport_fails(r)
    \/ \E r \in rpcs : list_services_await(r)
    \/ editor_new
    \/ editor_new_err
    \/ readline
    \/ paste
    \/ tab
    \/ block_on
    \/ \E r \in rpcs : block_on_return(r)
    \/ fetch_completions_join
    \/ enter
    \/ interrupted
    \/ eof
    \/ readline_err
    \/ \E r \in rpcs : execute_await(r)

\* fetch_completions_join can be taken: join() has a finished thread to return.
JoinEnabled == shell = "Completing" /\ bridge.state = "finished"

\* The shell with its threads scheduled: the scoped thread, once its future
\* has resolved, returns from block_on, and the main thread, once the scoped
\* thread has finished, returns from join. The second condition is
\* WF_vars(fetch_completions_join) with the action's enabling condition
\* written as the state predicate JoinEnabled.
BridgeSpec ==
    /\ InitShell
    /\ [][NextBridge]_vars
    /\ WF_vars(\E r \in rpcs : block_on_return(r))
    /\ ([]<>(~JoinEnabled) \/ []<><<fetch_completions_join>>_vars)

\* ------------------------------------------------------------- properties
\* s has sub as a contiguous substring.
Contains(s, sub) ==
    \E i \in 0..(Len(s) - Len(sub)) : SubSeq(s, i + 1, i + Len(sub)) = sub

\* The commands named action that the service registered as service declares.
Declared(service, action) ==
    IF service \in DOMAIN services
    THEN LET cmds == command_infos(services[service], customCompleter)
         IN {cmds[i] : i \in {k \in 1..Len(cmds) : cmds[k].name = action}}
    ELSE {}

\* Service::name() of each implementation.
NameOf == [impl \in Impls |-> service_name(impl)]

\* The names passed to register are pairwise distinct.
DistinctNames ==
    \A i, j \in DOMAIN registered :
        i /= j => NameOf[registered[i]] /= NameOf[registered[j]]

\* C1: an Execute whose service is not a registered name, whatever its action
\* and args, is answered success=false with "unknown service '<service>'",
\* and no handler is invoked for it.
C1_UnknownService ==
    \A c \in DOMAIN calls :
        (calls[c].pc /= "idle" /\ calls[c].service \notin DOMAIN services) =>
            /\ calls[c].invoked = <<>>
            /\ (calls[c].pc = "done" =>
                  /\ calls[c].response[1].success = FALSE
                  /\ calls[c].response[1].message =
                        <<"u", "n", "k", "n", "o", "w", "n", " ", "s", "e", "r", "v", "i", "c", "e", " ", "'">> \o calls[c].service \o <<"'">>)

C1_Witness ==
    \E c \in DOMAIN calls :
        /\ calls[c].pc = "done"
        /\ DOMAIN services /= {}
        /\ calls[c].service = <<"n", "o", "p", "e">>
        /\ calls[c].action = <<"c", "r", "e", "a", "t", "e">>
        /\ Len(calls[c].args) = 2

\* C2: an Execute on a registered service whose action is not one of that
\* service's declared commands, whatever its args (none included), is answered
\* success=false with "unknown command '<action>'", and no handler is invoked.
C2_UnknownCommand ==
    \A c \in DOMAIN calls :
        (/\ calls[c].pc /= "idle"
         /\ calls[c].service \in DOMAIN services
         /\ Declared(calls[c].service, calls[c].action) = {}) =>
            /\ calls[c].invoked = <<>>
            /\ (calls[c].pc = "done" =>
                  /\ calls[c].response[1].success = FALSE
                  /\ calls[c].response[1].message =
                        <<"u", "n", "k", "n", "o", "w", "n", " ", "c", "o", "m", "m", "a", "n", "d", " ", "'">> \o calls[c].action \o <<"'">>)

C2_Witness ==
    \E c \in DOMAIN calls :
        /\ calls[c].pc = "done"
        /\ calls[c].service = <<"v", "o", "l", "u", "m", "e">>
        /\ <<"v", "o", "l", "u", "m", "e">> \in DOMAIN services
        /\ calls[c].action = <<"i", "n", "f", "o">>
        /\ calls[c].args = <<>>

\* C3: an Execute on a known (service, command) declaring n arguments with
\* fewer than n args is answered success=false with a message that names the
\* declared parameter at index len(args) and states the expected count n, and
\* the handler is not invoked.
C3_MissingArgument ==
    \A c \in DOMAIN calls :
        \A cmd \in Declared(calls[c].service, calls[c].action) :
            (calls[c].pc /= "idle" /\ Len(calls[c].args) < Len(cmd.args)) =>
                /\ calls[c].invoked = <<>>
                /\ (calls[c].pc = "done" =>
                      /\ calls[c].response[1].success = FALSE
                      /\ Contains(calls[c].response[1].message,
                                  <<"'">> \o cmd.args[Len(calls[c].args) + 1].name \o <<"'">>)
                      /\ Contains(calls[c].response[1].message,
                                  <<"e", "x", "p", "e", "c", "t", "e", "d", " ">> \o Decimal(Len(cmd.args)) \o <<" ", "a", "r", "g", "s">>))

C3_Witness ==
    \E c \in DOMAIN calls :
        /\ calls[c].pc = "done"
        /\ calls[c].service = <<"v", "o", "l", "u", "m", "e">>
        /\ <<"v", "o", "l", "u", "m", "e">> \in DOMAIN services
        /\ calls[c].action = <<"c", "r", "e", "a", "t", "e">>
        /\ Len(calls[c].args) = 1
        /\ Contains(calls[c].response[1].message, <<"'", "d", "i", "s", "k", "'">>)

\* C4: an Execute on a known (service, command) declaring n arguments with n
\* or more args never fails on arity: the handler is invoked once with the
\* first n args bound in order, and the response is the one the same call
\* gets with exactly those n args.
C4_ExtraArgsIgnored ==
    \A c \in DOMAIN calls :
        \A cmd \in Declared(calls[c].service, calls[c].action) :
            (calls[c].pc = "done" /\ Len(calls[c].args) >= Len(cmd.args)) =>
                LET impl == services[calls[c].service]
                    first == SubSeq(calls[c].args, 1, Len(cmd.args))
                IN /\ calls[c].invoked =
                         <<[impl |-> impl, command |-> calls[c].action, bound |-> first]>>
                   /\ ~starts_with(calls[c].response[1].message, <<"m", "i", "s", "s", "i", "n", "g", " ", "a", "r", "g", "u", "m", "e", "n", "t">>)
                   /\ \E outcome \in Outcomes(impl) :
                         calls[c].response[1] =
                            CommandResponse(Service_execute(impl, customCompleter,
                                calls[c].action, first, outcome).result)

C4_Witness ==
    \E c \in DOMAIN calls :
        /\ calls[c].pc = "done"
        /\ calls[c].service = <<"v", "o", "l", "u", "m", "e">>
        /\ calls[c].action = <<"c", "r", "e", "a", "t", "e">>
        /\ calls[c].args = <<<<"x">>, <<"y">>, <<"x">>>>
        /\ calls[c].response[1].success
        /\ calls[c].response[1].message = <<"V", "o", "l", "u", "m", "e", " ", "'", "x", "'", " ", "c", "r", "e", "a", "t", "e", "d", " ", "o", "n", " ", "d", "i", "s", "k", " ", "'", "y", "'">>

\* C5: Execute always returns a normal response, never a protocol-level
\* error: success=true with the handler's message when the handler succeeds,
\* success=false with the error's message otherwise, a failing handler and a
\* failed validation in the same shape.
C5_NoProtocolError ==
    \A c \in DOMAIN calls :
        calls[c].response /= None =>
            LET resp == calls[c].response[1]
                res == calls[c].result[1]
            IN /\ resp.status = "Ok"
               /\ DOMAIN resp = {"status", "success", "message"}
               /\ resp.success = res.ok
               /\ resp.message = res.msg
               /\ (resp.success => calls[c].invoked /= <<>>)

C5_Witness ==
    \E c \in DOMAIN calls :
        /\ calls[c].pc = "done"
        /\ calls[c].invoked /= <<>>
        /\ calls[c].response[1].success = FALSE
        /\ calls[c].response[1].status = "Ok"

\* C6: a second registration under an already registered name never replaces
\* the implementation registered first: the registry holds, for each name,
\* the first implementation registered under it.
C6_FirstRegistrationKept ==
    \A i \in DOMAIN registered :
        LET name == NameOf[registered[i]]
            same == {j \in DOMAIN registered : NameOf[registered[j]] = name}
            first == CHOOSE j \in same : \A k \in same : j <= k
        IN name \in DOMAIN services /\ services[name] = registered[first]

\* C7: with pairwise distinct registered names a ListServices response has
\* exactly one entry per registered name and no other entry, and every
\* ListServices response of a serving server equals the one before it,
\* whatever Execute steps lie in between.
C7_OneEntryPerName ==
    (listed /= None /\ DistinctNames) =>
        /\ Len(listed[1]) = Len(registered)
        /\ \A i \in DOMAIN registered :
              Cardinality({k \in DOMAIN listed[1] :
                              listed[1][k].name = NameOf[registered[i]]}) = 1
        /\ \A k \in DOMAIN listed[1] :
              \E i \in DOMAIN registered : listed[1][k].name = NameOf[registered[i]]

C7_ListServicesStable ==
    /\ []C7_OneEntryPerName
    /\ [][(listed /= None /\ listed' /= None) => listed' = listed]_vars

C7_Witness ==
    /\ listed /= None
    /\ DistinctNames
    /\ Len(registered) = 2
    /\ \E c \in DOMAIN calls : calls[c].pc = "done" /\ calls[c].invoked /= <<>>

\* C8: when the completer's call fails at the transport level, completion at
\* that argument returns an empty candidate list as a normal result and the
\* shell is in Ready.
C8_TransportFailureEmpty ==
    (fetched /= None /\ fetched[1].joined /= None /\ ~fetched[1].joined[1].ok) =>
        /\ shell = "Ready"
        /\ completion /= None
        /\ completion[1].candidates = <<>>

C8_Witness ==
    /\ fetched /= None
    /\ fetched[1].joined /= None
    /\ ~fetched[1].joined[1].ok
    /\ shell = "Ready"
    /\ completion /= None

\* C9: when the completer reference has no '.', or the server answers its
\* zero-argument Execute with success=false, completion at that argument
\* returns an empty candidate list.
C9_BrokenCompleterEmpty ==
    fetched /= None =>
        ((IF fetched[1].joined = None
          THEN split_once(fetched[1].completer, ".") = None
          ELSE fetched[1].joined[1].ok /\ ~fetched[1].joined[1].resp[1].success)
         => completion[1].candidates = <<>>)

\* C10: during a remote completion the thread joining (main) is not the
\* thread that runs block_on, main never waits while it is the only thread
\* that could drive the connection, no keystroke is handled while the
\* callback waits, and once the server has answered or the transport has
\* failed the callback returns.
C10_BridgeThreads ==
    bridge.state /= "none" =>
        /\ bridge.thread /= bridge.joiner
        /\ bridge.joiner = "main"
        /\ (shell = "Completing" => CanDriveConnection)

C10_CompleterResolved ==
    /\ shell = "Completing"
    /\ \E r \in rpcs : r.kind = "completer" /\ r.state \in {"answered", "failed"}

C10_NoSelfJoinDeadlock ==
    /\ []C10_BridgeThreads
    /\ [][shell = "Completing" =>
            /\ line' = line /\ pos' = pos /\ hintOut' = hintOut
            /\ (shell' = "Completing" \/ (shell' = "Ready" /\ bridge.state = "finished"))]_vars
    /\ (C10_CompleterResolved ~> (shell = "Ready" /\ completion /= None))

C10_Witness ==
    /\ shell = "Ready"
    /\ fetched /= None
    /\ fetched[1].joined /= None
    /\ fetched[1].joined[1].ok
    /\ completion /= None
    /\ completion[1].candidates /= <<>>

\* The Execute RPCs issued for submitted lines that are in flight.
LineRpcs == {r \in rpcs : r.kind = "line"}

\* What the loop prints for a CommandResponse.
Rendered(resp) ==
    IF resp.success THEN <<resp.message>> ELSE <<<<"E", "r", "r", "o", "r", ":", " ">> \o resp.message>>

\* C11: the loop is strictly sequential: at most one Execute for a submitted
\* line is outstanding, it is outstanding exactly while the shell is in
\* Executing, Executing is left only by receiving its response and printing
\* it (or by its transport failure), and a line is read only from the prompt
\* that follows.
C11_OneOutstanding ==
    /\ Cardinality(LineRpcs) <= 1
    /\ (shell = "Executing" <=> LineRpcs /= {})
    /\ (shell = "Ready" => output = <<>>)

C11_StrictlySequential ==
    /\ []C11_OneOutstanding
    /\ [][(shell = "Executing" /\ shell' /= "Executing") =>
            \E r \in LineRpcs :
                /\ rpcs' = rpcs \ {r}
                /\ IF r.state = "answered"
                   THEN shell' = "Printed" /\ output' = Rendered(r.resp[1])
                   ELSE r.state = "failed" /\ shell' = "Failed"]_vars
    /\ [][(shell' = "Ready" /\ shell /= "Ready") =>
            shell \in {"Printed", "Completing"}]_vars
    /\ [][(shell' = "Executing" /\ shell /= "Executing") =>
            (shell = "Ready" /\ line /= <<>> /\ line' = <<>>)]_vars

C11_Witness ==
    /\ shell = "Printed"
    /\ output = <<<<"V", "o", "l", "u", "m", "e", " ", "'", "m", "y", "v", "o", "l", "'", " ", "c", "r", "e", "a", "t", "e", "d", " ", "o", "n", " ", "d", "i", "s", "k", " ", "'", "s", "d", "'">>>>
    /\ rpcs = {}

\* The ListServices RPCs in flight.
CatalogRpcs == {r \in rpcs : r.kind = "catalog"}

\* run before its loop: connecting, fetching the catalog, creating the editor.
Startup == {"Connecting", "AwaitingCatalog", "Connected"}

\* C12: ListServices is called once, on the step that follows a successful
\* connect, and nothing is read, completed or hinted before its response is
\* cached; a failed connect or a failed catalog fetch ends the shell in
\* Failed, which is never left and from which no connect is tried again;
\* and the cached catalog (and the helper built from it) never changes.
C12_NothingBeforeCatalog ==
    /\ Cardinality(CatalogRpcs) <= 1
    /\ (CatalogRpcs /= {} <=> shell = "AwaitingCatalog")
    /\ (shell \in Startup =>
          /\ line = <<>> /\ hintOut = None /\ completion = None /\ fetched = None
          /\ rpcs = CatalogRpcs)
    /\ (shell \in {"Connecting", "AwaitingCatalog"} => catalog = <<>>)

C12_CatalogFetchedOnce ==
    /\ []C12_NothingBeforeCatalog
    /\ [][(CatalogRpcs = {} /\ rpcs' \ rpcs /= {} /\ \E r \in rpcs' \ rpcs : r.kind = "catalog") =>
            (shell = "Connecting" /\ shell' = "AwaitingCatalog")]_vars
    /\ [][(shell' = "Connecting" => shell = "Connecting")
          /\ (shell' = "AwaitingCatalog" => shell \in {"Connecting", "AwaitingCatalog"})]_vars
    /\ [][(shell = "Connecting" /\ shell' /= shell) =>
            (shell' \in {"AwaitingCatalog", "Failed"} /\ (shell' = "Failed" => rpcs' = {}))]_vars
    /\ [][(shell = "AwaitingCatalog" /\ shell' /= shell) =>
            \E r \in CatalogRpcs :
                /\ rpcs' = {}
                /\ IF r.state = "failed" THEN shell' = "Failed" /\ catalog' = catalog
                   ELSE r.state = "answered" /\ shell' = "Connected" /\ catalog' = r.resp[1]]_vars
    /\ [][shell = "Failed" => (shell' = "Failed" /\ rpcs' = rpcs /\ line' = line)]_vars
    /\ [][shell \notin {"Connecting", "AwaitingCatalog"} =>
            (catalog' = catalog /\ helper' = helper)]_vars

C12_Witness ==
    /\ shell = "Ready"
    /\ catalog /= <<>>
    /\ line = <<"v", "o", "l", "u", "m", "e", " ", "c", "r", "e", "a", "t", "e", " ">>
    /\ completion /= None
    /\ rpcs = {}

\* The shell's builtin verbs.
BuiltinVerbs == {<<"h", "e", "l", "p">>, <<"q", "u", "i", "t">>, <<"e", "x", "i", "t">>}

\* The first token of the submitted line, if it has one.
FirstToken(l) ==
    IF split_whitespace(l) = <<>> THEN None ELSE Some(split_whitespace(l)[1])

\* C13: a submitted line whose first token is help, quit or exit issues no
\* Execute RPC; with quit or exit the shell moves to Terminated, with help it
\* prints and goes back to the prompt.
C13_BuiltinsClientSide ==
    [][(enter /\ FirstToken(line) /= None /\ FirstToken(line)[1] \in BuiltinVerbs) =>
        /\ rpcs' = rpcs
        /\ (IF FirstToken(line)[1] = <<"h", "e", "l", "p">> THEN shell' = "Printed"
            ELSE shell' = "Terminated")]_vars

\* A step on which the loop takes a response with success = false: it prints
\* "Error: <message>" and goes on to the next prompt.
C14_ErrorStaysInLoop ==
    /\ (shell = "Executing" /\ shell' /= "Executing"
          /\ \E r \in LineRpcs : r.state = "answered" /\ ~r.resp[1].success) =>
            /\ shell' = "Printed"
            /\ \E r \in LineRpcs : output' = <<<<"E", "r", "r", "o", "r", ":", " ">> \o r.resp[1].message>>
    /\ ((shell = "Printed" /\ shell' /= "Printed") => shell' = "Ready")

\* run returns an error on this step.
EndsAbnormally == shell /= "Failed" /\ shell' = "Failed"

\* The failures the specification names: connect, the initial catalog fetch,
\* and the transport failure of a submitted Execute.
TransportOrStartupFailure ==
    \/ shell = "Connecting"
    \/ shell = "AwaitingCatalog" /\ \E r \in CatalogRpcs : r.state = "failed"
    \/ shell = "Executing" /\ \E r \in LineRpcs : r.state = "failed"

\* The failures of the line editor: its creation, and a read error other
\* than interrupt and end of input.
EditorFailure == shell \in {"Connected", "Ready"}

\* C14 as stated: a success=false response never ends the loop (the shell
\* prints "Error: <message>" and returns to the prompt), and the shell ends
\* abnormally only on a transport failure of a submitted Execute or on a
\* failed connect or initial catalog fetch.
C14_AbnormalOnlyOnTransport ==
    [][C14_ErrorStaysInLoop /\ (EndsAbnormally => TransportOrStartupFailure)]_vars

\* C14 (amended): a success=false response never ends the loop (the shell
\* prints "Error: <message>" and returns to the prompt), and the shell ends
\* abnormally only on a transport failure of a submitted Execute, on a failed
\* connect or initial catalog fetch, or on a failure of the line editor (its
\* creation, or a read error other than interrupt and end of input).
C14_AbnormalOnlyOnTransportOrEditor ==
    [][C14_ErrorStaysInLoop
       /\ (EndsAbnormally => (TransportOrStartupFailure \/ EditorFailure))]_vars

C14_Witness ==
    /\ shell = "Printed"
    /\ output = <<<<"E", "r", "r", "o", "r", ":", " ", "u", "n", "k", "n", "o", "w", "n", " ", "s", "e", "r", "v", "i", "c", "e", " ", "'", "n", "o", "p", "e", "'">>>>
    /\ rpcs = {}

\* C15: with several Execute calls in progress at once, under every
\* interleaving of their steps each call is answered with the response the
\* same request gets from a server that runs it alone, each call's handler
\* invocation is its own, and no step of Execute or ListServices changes the
\* registry.
C15_AnsweredAsAlone ==
    \A c \in DOMAIN calls :
        calls[c].pc = "done" =>
            \E outcome \in RequestOutcomes(services, calls[c].service) :
                /\ calls[c].response[1] =
                      ServerExecute(services, customCompleter, calls[c].service,
                                    calls[c].action, calls[c].args, outcome)
                /\ (calls[c].service \in DOMAIN services =>
                      calls[c].invoked =
                         Service_execute(services[calls[c].service], customCompleter,
                                         calls[c].action, calls[c].args, outcome).invoked)

C15_ConcurrentCallsIndependent ==
    /\ []C15_AnsweredAsAlone
    /\ [][phase = "serving" =>
            (services' = services /\ order' = order /\ registered' = registered
             /\ phase' = phase)]_vars
    /\ [][\A c \in DOMAIN calls :
            (calls[c].pc /= "idle" /\ calls'[c].pc /= "idle") =>
                (calls'[c].service = calls[c].service /\ calls'[c].action = calls[c].action
                 /\ calls'[c].args = calls[c].args)]_vars

C15_Witness ==
    /\ DOMAIN calls = {1, 2}
    /\ calls[1].pc = "done" /\ calls[2].pc = "done"
    /\ calls[1].service = <<"v", "o", "l", "u", "m", "e">> /\ calls[1].action = <<"c", "r", "e", "a", "t", "e">>
    /\ calls[1].response[1].success
    /\ calls[2].service = <<"c", "u", "s", "t", "o", "m">> /\ calls[2].action = <<"r", "u", "n">>
    /\ ~calls[2].response[1].success /\ calls[2].invoked /= <<>>
    /\ listed /= None

\* The loop has just printed the whole catalog (`help`).
HelpPrinted ==
    shell = "Printed" /\ output /= <<>> /\ output[1] = <<"A", "v", "a", "i", "l", "a", "b", "l", "e", " ", "c", "o", "m", "m", "a", "n", "d", "s", ":">>

\* The loop has just printed the detail of service n (`help <n>`).
ServiceHelpPrinted(n) ==
    shell = "Printed" /\ output /= <<>> /\ starts_with(output[1], n \o <<":">>)

\* Some printed line starts with head and contains every string of parts.
SomeLine(head, parts) ==
    \E i \in DOMAIN output :
        starts_with(output[i], head) /\ \A p \in parts : Contains(output[i], p)

\* The argument placeholders of a printed line: from its first '<' to its
\* last '>'.
ArgsRegion(l) ==
    LET opens == {i \in DOMAIN l : l[i] = "<"}
        closes == {i \in DOMAIN l : l[i] = ">"}
    IN IF opens = {} \/ closes = {} THEN <<>>
       ELSE SubSeq(l, CHOOSE i \in opens : \A j \in opens : i <= j,
                      CHOOSE i \in closes : \A j \in closes : i >= j)

\* The metadata the services registered on the server declare.
DeclaredCommands(n) == command_infos(services[n], customCompleter)

\* `help` prints every service's name and description and every command's
\* name and description, as declared on the server.
C16_ServicesAndCommands ==
    \A n \in DOMAIN services :
        /\ SomeLine(<<" ", " ">> \o n \o <<":">>, {service_doc(services[n])})
        /\ \A k \in DOMAIN DeclaredCommands(n) :
              SomeLine(<<" ", " ", " ", " ">> \o DeclaredCommands(n)[k].name \o <<" ">>,
                       {DeclaredCommands(n)[k].description})

\* C16 as stated: the catalog declared on the server, fetched by ListServices
\* and printed by `help`, shows every service name and description, every
\* command name and description, and for every argument its name, its hint
\* text and its description.
C16_HelpReproducesAll ==
    HelpPrinted =>
        /\ C16_ServicesAndCommands
        /\ \A n \in DOMAIN services :
              \A k \in DOMAIN DeclaredCommands(n) :
                 LET cmd == DeclaredCommands(n)[k]
                 IN \A a \in DOMAIN cmd.args :
                       /\ \E i \in DOMAIN output :
                             /\ starts_with(output[i], <<" ", " ", " ", " ">> \o cmd.name \o <<" ">>)
                             /\ Contains(ArgsRegion(output[i]), cmd.args[a].name)
                             /\ Contains(ArgsRegion(output[i]), cmd.args[a].hint)
                       /\ SomeLine(<<>>, {cmd.args[a].description})

\* C16 (amended): the catalog declared on the server, fetched by ListServices
\* and printed by `help`, shows every service name and description, every
\* command name and description, and for every argument its display label
\* (the hint text when the hint is non-empty, the name otherwise); a
\* non-empty argument description is shown, next to the label, by
\* `help <service>`.
C16_HelpReproducesLabels ==
    /\ HelpPrinted =>
          /\ C16_ServicesAndCommands
          /\ \A n \in DOMAIN services :
                \A k \in DOMAIN DeclaredCommands(n) :
                   LET cmd == DeclaredCommands(n)[k]
                   IN SomeLine(<<" ", " ", " ", " ">> \o cmd.name \o <<" ">>,
                               {<<"<">> \o arg_label(cmd.args[a]) \o <<">">> : a \in DOMAIN cmd.args})
    /\ \A n \in DOMAIN services :
          ServiceHelpPrinted(n) =>
              \A k \in DOMAIN DeclaredCommands(n) :
                 LET cmd == DeclaredCommands(n)[k]
                 IN /\ SomeLine(<<" ", " ">> \o cmd.name \o <<" ">>,
                                {<<"<">> \o arg_label(cmd.args[a]) \o <<">">> : a \in DOMAIN cmd.args})
                    /\ \A a \in DOMAIN cmd.args :
                          cmd.args[a].description /= <<>> =>
                              SomeLine(<<" ", " ", " ", " ", "<">> \o arg_label(cmd.args[a]) \o <<">">>,
                                       {cmd.args[a].description})

C16_Witness ==
    /\ HelpPrinted
    /\ Len(catalog) = 2
    /\ <<"v", "o", "l", "u", "m", "e">> \in DOMAIN services
    /\ services[<<"v", "o", "l", "u", "m", "e">>] = "Volume"
    /\ SomeLine(<<" ", " ", " ", " ", "c", "r", "e", "a", "t", "e", " ", "<", "v", "o", "l", "u", "m", "e", " ", "n", "a", "m", "e", ">", " ", "<", "d", "e", "v", "i", "c", "e", ">", " ", "-", " ", "C", "r", "e", "a", "t", "e">>, {})

\* The text before the cursor and its tokens.
BeforeCursor == SubSeq(line, 1, pos)
Tokens == split_whitespace(BeforeCursor)

\* The text before the cursor ends in a whitespace character.
EndsInWhitespace ==
    BeforeCursor /= <<>> /\ is_whitespace(BeforeCursor[Len(BeforeCursor)])

\* The displays of the candidates the last complete call returned.
Displays == [i \in DOMAIN completion[1].candidates |-> completion[1].candidates[i].display]

\* The strings s[from..to] are exactly the members of set, in ascending order.
SortedListing(s, from, to, set) ==
    /\ {s[i] : i \in from..to} = set
    /\ \A i \in from..(to - 1) : StrLess(s[i], s[i + 1])

\* C17: with no token before the cursor, or one token that the cursor is
\* still inside, the candidates are the service names that start with the
\* token, in lexicographic order, followed by the builtins help, quit and
\* exit that start with it, in lexicographic order: every service with the
\* prefix is offered and no other service is.
C17_FirstWordCandidates ==
    (completion /= None
       /\ (Tokens = <<>> \/ (Len(Tokens) = 1 /\ ~EndsInWhitespace))) =>
        LET tok == IF Tokens = <<>> THEN <<>> ELSE Tokens[1]
            names == {n \in DOMAIN services : starts_with(n, tok)}
            verbs == {b \in BuiltinVerbs : starts_with(b, tok)}
        IN /\ Len(Displays) = Cardinality(names) + Cardinality(verbs)
           /\ SortedListing(Displays, 1, Cardinality(names), names)
           /\ SortedListing(Displays, Cardinality(names) + 1, Len(Displays), verbs)
           /\ \A i \in DOMAIN Displays :
                 completion[1].candidates[i].replacement = Displays[i]
           /\ completion[1].start = pos - Len(tok)

C17_Witness ==
    /\ completion /= None
    /\ line = <<"v", "o", "l">>
    /\ pos = 2
    /\ <<"b", "l", "o", "c", "k">> \in DOMAIN services
    /\ Displays = <<<<"v", "o", "l", "u", "m", "e">>>>

\* The candidates an argument position must offer, ews telling whether the
\* text before the cursor counts as ending in whitespace: none when the pair
\* is unknown, the index out of range or no completer declared; for a
\* completer "S.C" the pieces of the message of Execute(S, C, []) split on
\* commas, trimmed, non-empty, starting with the prefix, in the message's order.
ArgumentCandidates(ews) ==
    (completion /= None /\ Len(Tokens) >= 2 /\ (Len(Tokens) >= 3 \/ ews)) =>
        LET n == Len(Tokens)
            argIndex == IF ews THEN n - 2 ELSE n - 3
            prefix == IF ews THEN <<>> ELSE Tokens[n]
            cmds == Declared(Tokens[1], Tokens[2])
        IN IF cmds = {} THEN Displays = <<>>
           ELSE LET cmd == CHOOSE c \in cmds : TRUE
                IN IF argIndex >= Len(cmd.args) THEN Displays = <<>>
                   ELSE LET arg == cmd.args[argIndex + 1]
                            ref == split_once(arg.completer, ".")
                        IN IF arg.completer = <<>> THEN Displays = <<>> /\ fetched = None
                           ELSE IF ref = None THEN TRUE
                           ELSE /\ fetched /= None
                                /\ fetched[1].completer = arg.completer
                                /\ fetched[1].joined /= None
                                /\ completion[1].start = pos - Len(prefix)
                                /\ fetched[1].joined[1].ok =>
                                     LET resp == fetched[1].joined[1].resp[1]
                                         pieces == split(resp.message, ",")
                                         values == filter_non_empty(
                                             [i \in 1..Len(pieces) |-> trim(pieces[i])])
                                     IN /\ \E o \in RequestOutcomes(services, ref[1][1]) :
                                              resp = ServerExecute(services, customCompleter,
                                                         ref[1][1], ref[1][2], <<>>, o)
                                        /\ Displays = filter_starts_with(values, prefix)

\* C18: at an argument position of a known (service, command) the argument
\* index is tokenCount-2 with an empty prefix when the text before the cursor
\* ends in whitespace and tokenCount-3 with the last token as prefix
\* otherwise; a completer "S.C" at that index gives the pieces of the message
\* of Execute(S, C, []) that start with the prefix, in the server's order;
\* an index out of range, an unknown pair or no completer gives no candidates.
C18_ArgumentCandidates == ArgumentCandidates(EndsInWhitespace)

\* The same with "ends in whitespace" read as the code tests it, "ends in a
\* space": this holds.
C18_ArgumentCandidatesAfterSpace == ArgumentCandidates(ends_with_space(BeforeCursor))

\* "volume create " is in the editor with the cursor at its end, and the
\* registered volume service declares create(name, disk) with the hint
\* "device" on disk.
C19_Case ==
    /\ shell \in {"Ready", "Completing"}
    /\ line = <<"v", "o", "l", "u", "m", "e", " ", "c", "r", "e", "a", "t", "e", " ">>
    /\ pos = Len(line)
    /\ \E cmd \in Declared(<<"v", "o", "l", "u", "m", "e">>, <<"c", "r", "e", "a", "t", "e">>) :
          /\ Len(cmd.args) = 2
          /\ cmd.args[1].name = <<"n", "a", "m", "e">>
          /\ cmd.args[2].name = <<"d", "i", "s", "k">>
          /\ cmd.args[2].hint = <<"d", "e", "v", "i", "c", "e">>

\* C19 as stated: for "volume create " with create(name, disk) and the hint
\* "device" on disk, the inline hint is "<device>".
C19_HintIsDevice ==
    C19_Case => hintOut = Some(<<"<", "d", "e", "v", "i", "c", "e", ">">>)

\* C19 (amended): for "volume create " with create(name, disk) and the hint
\* "device" on disk, the inline hint shows both arguments, none being typed
\* yet: "<L> <device>" with L the label of name ("<volume name> <device>"
\* for the storage daemon's Volume).
C19_HintIsBothArguments ==
    C19_Case =>
        \E cmd \in Declared(<<"v", "o", "l", "u", "m", "e">>, <<"c", "r", "e", "a", "t", "e">>) :
            hintOut = Some(<<"<">> \o arg_label(cmd.args[1]) \o <<">", " ", "<", "d", "e", "v", "i", "c", "e", ">">>)

C19_Witness ==
    /\ C19_Case
    /\ hintOut = Some(<<"<", "v", "o", "l", "u", "m", "e", " ", "n", "a", "m", "e", ">", " ", "<", "d", "e", "v", "i", "c", "e", ">">>)

\* The hint the rule gives for the text before the cursor, ews telling
\* whether that text counts as ending in whitespace: none with fewer than two
\* tokens, an unknown pair or k >= n; otherwise the placeholders of the specs
\* k..n-1 joined by single spaces, after one space unless ews.
RemainingLabels(ews) ==
    LET cmds == IF Len(Tokens) < 2 THEN {} ELSE Declared(Tokens[1], Tokens[2])
    IN IF cmds = {} THEN hintOut = None
       ELSE LET args == (CHOOSE c \in cmds : TRUE).args
                k == Len(Tokens) - 2
                label(a) == IF a.hint /= <<>> THEN a.hint ELSE a.name
                shown == [i \in 1..(Len(args) - k) |->
                             <<"<">> \o label(args[k + i]) \o <<">">>]
            IN IF k >= Len(args) THEN hintOut = None
               ELSE hintOut = Some((IF ews THEN <<>> ELSE <<" ">>) \o join_space(shown))

\* C20: with at least two tokens before the cursor naming a known (service,
\* command) of n arguments and k = tokenCount-2, the hint is the placeholders
\* "<label>" of the specs k..n-1 joined by single spaces (label: the hint if
\* non-empty, the name otherwise), with one leading space exactly when the
\* text before the cursor does not end in whitespace; there is no hint when
\* k >= n, with fewer than two tokens, or for an unknown pair.
C20_RemainingLabels == RemainingLabels(EndsInWhitespace)

\* The same with "ends in whitespace" read as the code tests it, "ends in a
\* space": this holds.
C20_RemainingLabelsAfterSpace == RemainingLabels(ends_with_space(BeforeCursor))

\* With ews telling whether the text before the cursor counts as ending in
\* whitespace: then the completion prefix is empty, the replacement starts at
\* the cursor, and the hint has no leading space.
FreshToken(ews) ==
    ews =>
        /\ (completion /= None => completion[1].start = pos)
        /\ (pending /= None => (pending[1].prefix = <<>> /\ pending[1].start = pos))
        /\ (hintOut /= None => hintOut[1][1] /= " ")

\* C21: whenever the text before the cursor ends in a whitespace character (a
\* space, a tab, anything the tokenizer splits on), completion and hinting
\* take the current token as empty: the completion prefix is empty, the
\* replacement start offset is the cursor, and the hint has no leading space.
C21_TrailingWhitespace == FreshToken(EndsInWhitespace)

\* The same for a trailing space only, as the code tests it: this holds.
C21_TrailingSpace == FreshToken(ends_with_space(BeforeCursor))

\* The partially typed token: the last token when the text before the cursor
\* does not end in whitespace, nothing when it does.
PartialToken == IF EndsInWhitespace \/ Tokens = <<>> THEN <<>> ELSE Tokens[Len(Tokens)]

\* C22: in every branch of completion that produces candidates the start
\* offset is cursor - len(prefix), the text between the start offset and the
\* cursor is exactly the partially typed token and every candidate starts
\* with it; when no candidates are produced the list is empty and the start
\* offset is the cursor (or, in a branch whose filter kept nothing, still
\* cursor - len(token)).
C22_StartOffset ==
    completion /= None =>
        LET c == completion[1]
        IN IF c.candidates /= <<>>
           THEN /\ c.start = pos - Len(PartialToken)
                /\ SubSeq(BeforeCursor, c.start + 1, pos) = PartialToken
                /\ \A i \in DOMAIN c.candidates :
                      /\ starts_with(c.candidates[i].replacement, PartialToken)
                      /\ starts_with(c.candidates[i].display, PartialToken)
           ELSE c.start \in {pos, pos - Len(PartialToken)}

\* The same away from the texts that end in a whitespace character other
\* than a space: this holds.
C22_StartOffsetNoTrailingTab ==
    (EndsInWhitespace => ends_with_space(BeforeCursor)) => C22_StartOffset

\* The cursor is on the second token, ews telling whether the text before it
\* counts as ending in whitespace: one token and then whitespace, or two
\* tokens and none.
OnSecondToken(ews) ==
    \/ Len(Tokens) = 1 /\ ews
    \/ Len(Tokens) = 2 /\ ~ews

\* The candidates are exactly the strings of set, in lexicographic order.
ExactlySorted(set) ==
    /\ Len(Displays) = Cardinality(set)
    /\ SortedListing(Displays, 1, Len(Displays), set)
    /\ \A i \in DOMAIN Displays : completion[1].candidates[i].replacement = Displays[i]

\* After a service name the second token completes to that service's
\* command names; after a name that is no service (and not help) to nothing.
CommandCandidates(ews) ==
    (completion /= None /\ OnSecondToken(ews) /\ Tokens[1] /= <<"h", "e", "l", "p">>) =>
        LET typed == IF ews THEN <<>> ELSE Tokens[2]
        IN IF Tokens[1] \in DOMAIN services
           THEN ExactlySorted({DeclaredCommands(Tokens[1])[k].name :
                                  k \in {j \in DOMAIN DeclaredCommands(Tokens[1]) :
                                            starts_with(DeclaredCommands(Tokens[1])[j].name, typed)}})
           ELSE Displays = <<>>

\* C23: when the first token is a service name (not help) and the cursor is
\* on the second token, the candidates are exactly that service's command
\* names starting with the typed part of the second token, in lexicographic
\* order; when the first token is no service of the catalog there are none.
C23_CommandCandidates == CommandCandidates(EndsInWhitespace)

\* The same with the whitespace test the code makes, a trailing space: this
\* holds.
C23_CommandCandidatesAfterSpace == CommandCandidates(ends_with_space(BeforeCursor))

\* After help the second token completes to the service names, never to
\* command names or builtins.
HelpCandidates(ews) ==
    (completion /= None /\ OnSecondToken(ews) /\ Tokens[1] = <<"h", "e", "l", "p">>) =>
        LET typed == IF ews THEN <<>> ELSE Tokens[2]
        IN ExactlySorted({n \in DOMAIN services : starts_with(n, typed)})

\* C24: when the first token is exactly help and the cursor is on the second
\* token, the candidates are exactly the service names starting with the
\* typed part of the second token, in lexicographic order, never command
\* names and never builtins.
C24_HelpCandidates == HelpCandidates(EndsInWhitespace)

\* The same with the whitespace test the code makes, a trailing space: this
\* holds.
C24_HelpCandidatesAfterSpace == HelpCandidates(ends_with_space(BeforeCursor))

\* C25: a submitted line that is empty after trimming issues no RPC and
\* re-prompts; a line that is not a builtin and has fewer than two tokens
\* prints the usage notice, issues no RPC and re-prompts; any other line that
\* is not a builtin issues exactly one Execute, with service = token 0,
\* action = token 1 and args = the remaining tokens, unchanged and in order.
C25_LineToRequest ==
    [][enter =>
        LET toks == split_whitespace(line)
        IN IF toks = <<>>
           THEN rpcs' = rpcs /\ shell' = "Printed" /\ output' = <<>>
           ELSE IF toks[1] \in BuiltinVerbs THEN TRUE
           ELSE IF Len(toks) < 2
           THEN /\ rpcs' = rpcs
                /\ shell' = "Printed"
                /\ output' = <<<<"U", "s", "a", "g", "e", ":", " ", "<", "s", "e", "r", "v", "i", "c", "e", ">", " ", "<", "c", "o", "m", "m", "a", "n", "d", ">", " ", "[", "a", "r", "g", "s", ".", ".", ".", "]">>>>
           ELSE /\ shell' = "Executing"
                /\ rpcs \subseteq rpcs'
                /\ Cardinality(rpcs' \ rpcs) = 1
                /\ \A r \in rpcs' \ rpcs :
                      /\ r.kind = "line"
                      /\ r.state = "queued"
                      /\ r.service = toks[1]
                      /\ r.action = toks[2]
                      /\ r.args = SubSeq(toks, 3, Len(toks))]_vars

C25_Witness ==
    /\ shell = "Executing"
    /\ \E r \in LineRpcs :
          /\ r.service = <<"v", "o", "l", "u", "m", "e">>
          /\ r.action = <<"c", "r", "e", "a", "t", "e">>
          /\ r.args = <<<<"m", "y", "v", "o", "l">>, <<"s", "d">>>>
          /\ r.state = "queued"

\* A line is being read: the editor may call the helper.
Reading == shell \in {"Ready", "Completing"}

\* The hint and the candidates as functions of the line, the cursor, the
\* cached catalog and, for a remote completer, the reply to its call.
HintOf == hint(from_services(catalog), line, pos)

CompletionOf(reply) ==
    LET c == complete(from_services(catalog), line, pos)
    IN IF c.fetch = None THEN c
       ELSE complete_values(c.prefix, c.start,
                IF reply = None THEN <<>> ELSE fetch_completions_match(reply[1]))

\* What the last hint call and the last completion call returned is what
\* those functions give, whatever calls were made before.
C26_ResultsFromInputsOnly ==
    /\ hintOut = HintOf
    /\ (completion /= None =>
          completion[1] = CompletionOf(IF fetched = None THEN None ELSE fetched[1].joined))

\* C26 as stated: completion and hinting hold no state from call to call
\* (no field of the helper changes while a line is read), and their result
\* depends only on the line, the cursor, the cached catalog and the server's
\* reply to that call.
C26_NoCrossCallState ==
    /\ []C26_ResultsFromInputsOnly
    /\ [][(Reading /\ Reading') =>
            (helper' = helper /\ last_input_len' = last_input_len)]_vars

\* C26 (amended): the result of a completion or hint call depends only on
\* the line, the cursor, the cached catalog and the server's reply to that
\* call, whatever calls were made before; the one value the helper carries
\* from call to call is the length of the last line hint saw, which no
\* completion or hint result depends on.
C26_NoCrossCallDependence ==
    /\ []C26_ResultsFromInputsOnly
    /\ [][helper' /= helper => shell = "AwaitingCatalog"]_vars
    /\ [][last_input_len' /= last_input_len =>
            (Reading /\ Reading' /\ last_input_len' = Len(line') /\ hintOut' = HintOf')]_vars

C26_Witness ==
    /\ shell = "Ready"
    /\ line = <<>>
    /\ last_input_len > 0
    /\ completion /= None
    /\ Len(completion[1].candidates) > 3

\* C27: registration happens only before serving: no step taken once serve
\* has started registers a service or changes the registry, and the
\* `register must be called before serve` assertion of NexusServer::register
\* fails in no builder sequence new().register(..)...serve(..).
C27_RegisterOnlyBeforeServe ==
    /\ [](phase \in {"building", "serving"})
    /\ [](phase = "building" => Arc_get_mut(registry_holders))
    /\ [][phase /= "building" => (registered' = registered /\ services' = services)]_vars
    /\ [][registered' /= registered =>
            (phase = "building" /\ phase' = "building"
             /\ \E impl \in Impls : registered' = Append(registered, impl))]_vars

C27_Witness ==
    /\ phase = "serving"
    /\ Len(registered) = MaxRegister
    /\ \E c \in DOMAIN calls : calls[c].pc = "done"

\* complete reaches its argument branch and finds the (service, command) pair.
InArgumentBranch ==
    LET n == Len(Tokens)
        ews == ends_with_space(BeforeCursor)
    IN /\ n >= 2
       /\ ~(n = 2 /\ ~ews /\ (Tokens[1] = <<"h", "e", "l", "p">> \/ Tokens[1] \in DOMAIN helper.commands))
       /\ <<Tokens[1], Tokens[2]>> \in DOMAIN helper.arg_info

\* C28: the argument index never underflows: when the argument branch
\* computes tokenCount - 3 (the text does not end in a space) there are at
\* least three tokens, because a two-token line without a trailing space is
\* answered by the help or command-name branch or fails the lookup of
\* (service, command).
C28_NoUnderflow ==
    /\ \A k \in DOMAIN helper.arg_info : k[1] \in DOMAIN helper.commands
    /\ ((Len(Tokens) = 2 /\ ~ends_with_space(BeforeCursor)) =>
          \/ Tokens[1] = <<"h", "e", "l", "p">>
          \/ Tokens[1] \in DOMAIN helper.commands
          \/ <<Tokens[1], Tokens[2]>> \notin DOMAIN helper.arg_info)
    /\ ((InArgumentBranch /\ ~ends_with_space(BeforeCursor)) => Len(Tokens) >= 3)
    /\ ~complete(helper, line, pos).underflow
    /\ (completion /= None => ~completion[1].underflow)

C28_Witness ==
    /\ shell = "Ready"
    /\ completion /= None
    /\ InArgumentBranch
    /\ ~ends_with_space(BeforeCursor)
    /\ Len(Tokens) = 3
    /\ Tokens[1] = <<"v", "o", "l", "u", "m", "e">>

CompleterRpcs == {r \in rpcs : r.kind = "completer"}

\* The cursor is at an argument position whose spec declares the completer
\* service.action: past the second token, on the argument numbered
\* tokenCount - 2 when the current token is fresh (ews), tokenCount - 3 when the
\* cursor is inside it.
CompleterDeclaredAt(ews, service, action) ==
    LET n == Len(Tokens)
        argIndex == IF ews THEN n - 2 ELSE n - 3
    IN /\ n >= 2
       /\ (n >= 3 \/ ews)
       /\ \E cmd \in Declared(Tokens[1], Tokens[2]) :
             /\ argIndex < Len(cmd.args)
             /\ cmd.args[argIndex + 1].completer /= <<>>
             /\ split_once(cmd.args[argIndex + 1].completer, ".") = Some(<<service, action>>)

\* Every completer RPC in flight was issued by the completion call in
\* progress, at such a position, with no argument; there is at most one.
CompleterRpcsFromDeclared(ews) ==
    /\ Cardinality(CompleterRpcs) <= 1
    /\ \A r \in CompleterRpcs :
          /\ shell = "Completing"
          /\ r.args = <<>>
          /\ CompleterDeclaredAt(ews, r.service, r.action)
    /\ (Reading => CatalogRpcs = {})

\* An RPC is added while a line is read only by the scoped thread of a
\* completion call, once per call, and it is an Execute of the completer;
\* typing and cursor moves (the hint calls) and a completion call without a
\* completer to fetch add none.
CompleterRpcsOnlyFromComplete ==
    [][(Reading /\ Reading' /\ Cardinality(rpcs') > Cardinality(rpcs)) =>
          /\ shell = "Completing" /\ shell' = "Completing"
          /\ bridge.state = "spawned" /\ bridge'.state = "block_on"
          /\ CompleterRpcs = {}
          /\ Cardinality(rpcs' \ rpcs) = 1
          /\ \A r \in rpcs' \ rpcs : r.kind = "completer" /\ r.args = <<>>
          /\ line' = line /\ pos' = pos /\ hintOut' = hintOut]_vars

\* C29: completion issues an RPC only at an argument position whose spec
\* declares a completer (the position taken as the spec takes it, a trailing
\* whitespace character starting a fresh token); the first-word, help and
\* command-name positions and every hint call issue none; one completion
\* call issues at most one Execute, with empty args, and never ListServices.
C29_RpcOnlyForDeclaredCompleter ==
    /\ []CompleterRpcsFromDeclared(EndsInWhitespace)
    /\ CompleterRpcsOnlyFromComplete

\* The same with the position taken as the code takes it: only a trailing
\* space character starts a fresh token.
C29_RpcOnlyForDeclaredCompleterAfterSpace ==
    /\ []CompleterRpcsFromDeclared(ends_with_space(BeforeCursor))
    /\ CompleterRpcsOnlyFromComplete

C29_Case ==
    /\ shell = "Completing"
    /\ CompleterRpcs /= {}
    /\ EndsInWhitespace
    /\ ~ends_with_space(BeforeCursor)

\* C30: the shell's client never has more than one RPC in flight: the
\* completer's Execute is in flight only while a line is being read (inside
\* the completion call), a line's Execute only after reading has returned,
\* the ListServices only at startup, and each leaves only once its answer or
\* its transport failure has arrived; so no two of them overlap.
C30_InFlight ==
    /\ Cardinality(rpcs) <= 1
    /\ \A r \in rpcs :
          /\ r.kind \in {"catalog", "completer", "line"}
          /\ (r.kind = "completer" => shell = "Completing" /\ bridge.state = "block_on")
          /\ (r.kind = "line" => shell = "Executing")
          /\ (r.kind = "catalog" => shell = "AwaitingCatalog")

C30_AtMostOneRpc ==
    /\ []C30_InFlight
    /\ [][\A r \in rpcs :
            (\A q \in rpcs' : <<q.kind, q.service, q.action, q.args>>
                                 /= <<r.kind, r.service, r.action, r.args>>)
            => r.state \in {"answered", "failed"}]_vars
    /\ [][Cardinality(rpcs') > Cardinality(rpcs) => rpcs = {}]_vars

C30_Witness ==
    /\ shell = "Completing"
    /\ line = <<"c", "u", "s", "t", "o", "m", " ", "r", "u", "n", " ">>
    /\ \E r \in rpcs : r.kind = "completer" /\ r.state = "answered"

\* What the loop prints on Ctrl-C: the cursor goes up to the input line, to
\* the column after the text hint saw last, and ^C is written there.
InterruptEcho ==
    << <<"ESC", "[", "A", "ESC", "[">> \o Decimal(5 + last_input_len + 1)
          \o <<"G", "^", "C">> >>

\* C31: Ctrl-C while a line is being read never ends the shell and issues no
\* RPC: the partial line is discarded, ^C is echoed and the next step is the
\* prompt of a fresh, empty line (Ready); end of input ends the shell
\* normally (Terminated, not Failed) without an RPC, as do the lines quit
\* and exit; and Terminated is never left.
C31_InterruptAndExit ==
    /\ [][interrupted =>
            /\ shell' = "Printed"
            /\ rpcs' = rpcs /\ rpcs = {}
            /\ line' = <<>> /\ pos' = 0 /\ hintOut' = None /\ completion' = None
            /\ output' = InterruptEcho
            /\ catalog' = catalog /\ helper' = helper]_vars
    /\ [][shell = "Printed" =>
            (shell' = "Ready" /\ rpcs' = rpcs /\ line' = line /\ pos' = pos)]_vars
    /\ [](shell = "Printed" => (line = <<>> /\ pos = 0 /\ rpcs = {}))
    /\ [][eof => (shell' = "Terminated" /\ rpcs' = rpcs /\ rpcs = {})]_vars
    /\ [][(enter /\ trim(line) \in {<<"q", "u", "i", "t">>, <<"e", "x", "i", "t">>}) =>
            (shell' = "Terminated" /\ rpcs' = rpcs /\ rpcs = {})]_vars
    /\ [][shell /= "Terminated"]_vars

\* Ctrl-C has just discarded a partial line of several characters.
C31_Witness ==
    /\ shell = "Printed"
    /\ last_input_len >= 3
    /\ output = InterruptEcho
    /\ line = <<>>
    /\ rpcs = {}
====
